---- MODULE Spec2Model ----
(***************************************************************************)
(* Verification model of the backend: the authentication middleware stack, *)
(* the conversation store with the streaming chat coordinator, and the     *)
(* persistent job scheduler with its history pipeline.                     *)
(*                                                                         *)
(* Each subsystem has its own specification over the shared variables:     *)
(*   SpecAuth   - one request travelling through the middleware stack      *)
(*   SpecChat   - concurrent chat requests saving user and assistant rows  *)
(*   SpecDedupe - chat requests against the clock of the duplicate window  *)
(*   SpecConv   - conversation operations of the owner and of another user *)
(*   SpecStream - one SSE stream from the upstream LLM to the client       *)
(*   SpecJobs   - job creation, execution, listeners and history           *)
(*   SpecJwks   - concurrent token verifications sharing the JWKS cache    *)
(*   SpecLogs   - overlapping job executions capturing their output        *)
(*   SpecCreate - POST /jobs against a store filled by the add_* functions *)
(*   SpecShutdown - the shutdown event against executions in flight        *)
(*   SpecTitle  - the conversation title derived from message texts        *)
(*   SpecDelete - DELETE /jobs/{id} against the scheduler firing the job   *)
(*   SpecRequestId - overlapping requests in the request-id middleware     *)
(*   SpecLocks  - two chat requests on one conversation, scheduled fairly  *)
(***************************************************************************)
EXTENDS Integers, Sequences, FiniteSets, TLC

None == "none"

(***************************************************************************)
(* Bounds of the model.                                                    *)
(***************************************************************************)
MaxRequests == 2
MaxTime == 5
MaxOverlap == 2
MaxChunks == 3
MaxExecs == 1
MaxCaptures == 2
MaxPad == 1
MaxBody == 53

VARIABLES
    \* ---- authentication middleware stack (core/middleware.py, core/app.py)
    req,        \* the request in flight: method, path and credential headers
    apc,        \* where the request is in the middleware stack
    rstate,     \* request.state: api_key_data, token_data, user_id, request_id
    resp,       \* the response travelling back, None while there is none
    handled,    \* the route handler invocation of this request, None if none
    issued,     \* number of request ids issued so far (uuid4 is fresh each time)
    \* ---- conversation store and chat requests (services/conversation_service.py,
    \*      routers/chat.py)
    conv,       \* the chat_conversations row: exists, owner (user_id), title
    msgs,       \* the chat_messages rows of the conversation, in created_at order
    nextMsgId,  \* ids given to message rows so far
    lock,       \* holder of the row lock on the conversation (SELECT FOR UPDATE)
    now,        \* the clock, in seconds
    cp,         \* the chat requests: position and locals of each
    lastOp,     \* the last conversation operation and what it answered
    closeEarly, \* the framework closes the session before streaming the body
    \* ---- one SSE stream (services/chat_service.py, routers/chat.py)
    sreq,       \* the streamed request: conversation_id given, user_message_id
    spc,        \* idle, streaming (stream_chat iterates the upstream), closed
    nchunks,    \* upstream chunks received so far
    sstate,     \* StreamState: assistant_content, chunk_id, assistant_message_id, done
    out,        \* the frames sent to the client, in order
    \* ---- job scheduler and history (core/jobs.py, utils/job_wrapper.py,
    \*      utils/job_listeners.py, services/job_service.py)
    jobstore,   \* per job id: the row of the job store table and its trigger
    sched_running, \* scheduler.running
    addc,       \* the add_* call in progress and its verification
    execs,      \* the job executions: wrapper, mark-running task, listener task
    nextExec,   \* executions started so far
    history,    \* the job_history rows, in insertion order
    stored_logs,   \* utils.job_log_storage._job_logs, written by the wrapper
    listener_logs, \* utils.job_listeners._job_logs, read by the listeners
    \* ---- JWKS cache and concurrent token verifications (core/auth.py)
    jwks_cache, \* _jwks_cache (loaded), _cached_kids, _cache_expires_at (fresh)
    idp_keys,   \* the kids of the key set the identity provider publishes now
    vt,         \* the token verifications in progress: position and locals
    \* ---- log capture of job executions (utils/job_utils.py)
    sys_stdout, \* sys.stdout: the original stream (0) or the buffer of a capture
    sys_stderr, \* sys.stderr, likewise
    root_handlers, \* the capture handlers added to the root logger
    cap,        \* the LogCapture scopes of the executions: position and buffers
    \* ---- job creation (services/job_service.py)
    crt,        \* the POST /jobs request being served and what it did
    \* ---- application lifecycle (core/app.py)
    app,        \* the shutdown event: position, HTTP client and database pool
    \* ---- title derivation (services/conversation_service.py)
    ttl,        \* the text given to generate_conversation_title and its results
    \* ---- job deletion (services/job_service.py)
    dlt,        \* the DELETE /jobs/{id} request being served and what it did
    \* ---- request-id middleware (core/middleware.py)
    mw          \* the log-record factory, the requests inside dispatch, the records made

authVars == <<req, apc, rstate, resp, handled, issued>>
chatVars == <<conv, msgs, nextMsgId, lock, now, cp, lastOp, closeEarly>>

streamVars == <<sreq, spc, nchunks, sstate, out>>
jobVars == <<jobstore, sched_running, addc, execs, nextExec, history, stored_logs,
             listener_logs>>
jwksVars == <<jwks_cache, idp_keys, vt>>
logVars == <<sys_stdout, sys_stderr, root_handlers, cap>>
createVars == <<crt>>
appVars == <<app>>
titleVars == <<ttl>>
deleteVars == <<dlt>>
requestIdVars == <<mw>>
vars == <<authVars, chatVars, streamVars, jobVars, jwksVars, logVars, createVars,
          appVars, titleVars, deleteVars, requestIdVars>>

\* What the actions of one subsystem leave alone.
nonAuthVars == <<chatVars, streamVars, jobVars, jwksVars, logVars, createVars, appVars,
      titleVars, deleteVars, requestIdVars>>
nonChatVars == <<authVars, streamVars, jobVars, jwksVars, logVars, createVars, appVars,
      titleVars, deleteVars, requestIdVars>>
nonStreamVars == <<authVars, chatVars, jobVars, jwksVars, logVars, createVars, appVars,
      titleVars, deleteVars, requestIdVars>>
nonJobVars == <<authVars, chatVars, streamVars, jwksVars, logVars, createVars, appVars,
      titleVars, deleteVars, requestIdVars>>
nonJwksVars == <<authVars, chatVars, streamVars, jobVars, logVars, createVars, appVars,
      titleVars, deleteVars, requestIdVars>>
nonLogVars == <<authVars, chatVars, streamVars, jwksVars, jobstore, sched_running, addc,
                execs, nextExec, history, listener_logs, createVars, appVars,
      titleVars, deleteVars, requestIdVars>>
nonCreateVars == <<authVars, chatVars, streamVars, jwksVars, logVars, sched_running, addc,
                   execs, nextExec, stored_logs, listener_logs, appVars,
      titleVars, deleteVars, requestIdVars>>
nonAppVars == <<authVars, chatVars, streamVars, jwksVars, logVars, createVars,
      titleVars, deleteVars, requestIdVars>>
nonRequestIdVars ==
    <<authVars, chatVars, streamVars, jobVars, jwksVars, logVars,
      createVars, appVars, titleVars, deleteVars>>
nonDeleteVars ==
    <<authVars, chatVars, streamVars, jwksVars, logVars,
      createVars, appVars, titleVars, requestIdVars>>
nonTitleVars ==
    <<authVars, chatVars, streamVars, jobVars, jwksVars, logVars,
      createVars, appVars, deleteVars, requestIdVars>>

(***************************************************************************)
(* AUTHENTICATION                                                          *)
(***************************************************************************)

\* core/config.py: PUBLIC_ROUTES
PUBLIC_ROUTES == {"/", "/docs", "/openapi.json", "/redoc", "/health"}

Methods == {"GET", "POST", "OPTIONS"}
Paths == {"/", "/health", "/chat", "/jobs"}

\* The methods each path is registered for by the routers.
RouteMethods(path) ==
    CASE path = "/" -> {"GET"}
      [] path = "/health" -> {"GET"}
      [] path = "/chat" -> {"POST"}
      [] path = "/jobs" -> {"GET", "POST"}
      [] OTHER -> {}

\* X-API-Key header values: absent, whitespace only, or a key.
ApiKeys == {"key_u1", "key_revoked", "key_limited", "key_expired", "key_nouser"}
ApiKeyHeaders == {None, " "} \cup ApiKeys

\* What the identity provider answers to POST verify-api-key for a key;
\* status 0 stands for a transport failure (httpx.HTTPError).
ProviderAnswers(key) ==
    {[status |-> 0, valid |-> FALSE, userId |-> None]} \cup
    (CASE key = "key_u1" -> {[status |-> 200, valid |-> TRUE, userId |-> "u1"]}
       [] key = "key_revoked" -> {[status |-> 401, valid |-> FALSE, userId |-> None]}
       [] key = "key_limited" -> {[status |-> 403, valid |-> FALSE, userId |-> None]}
       [] key = "key_expired" -> {[status |-> 200, valid |-> FALSE, userId |-> None]}
       [] key = "key_nouser" -> {[status |-> 200, valid |-> TRUE, userId |-> None]}
       [] OTHER -> {[status |-> 500, valid |-> FALSE, userId |-> None]})

\* core/exceptions.py: AuthenticationError is always raised with status 401,
\* JWKSError with status 503.
AuthenticationError(detail) ==
    [ok |-> FALSE, status_code |-> 401, detail |-> detail, data |-> "none"]
JWKSError(detail) ==
    [ok |-> FALSE, status_code |-> 503, detail |-> detail, data |-> "none"]

\* core/auth.py: verify_api_key, from the provider's answer to the result.
verify_api_key(answer) ==
    IF answer.status = 0
        THEN AuthenticationError("API key verification failed: transport error")
    ELSE IF answer.status = 401 THEN AuthenticationError("Invalid API key")
    ELSE IF answer.status = 403
        THEN AuthenticationError("API key has insufficient permissions")
    ELSE IF answer.status # 200
        THEN AuthenticationError("API key verification failed: HTTP status")
    ELSE IF ~answer.valid THEN AuthenticationError("Invalid API key")
    ELSE IF answer.userId = None
        THEN AuthenticationError("API key verification failed: Missing user_id")
    ELSE [ok |-> TRUE, status_code |-> 200, detail |-> None,
          data |-> [set |-> TRUE, user_id |-> answer.userId, sub |-> None, id |-> None]]

\* Bearer tokens: the kid of the unverified header, whether the signature,
\* issuer and audience verify, and the sub and id claims of the payload.
Tokens == {"t_u2", "t_id3", "t_anon", "t_forged", "t_nokid"}
TokenInfo(t) ==
    CASE t = "t_u2" -> [kid |-> "K1", good |-> TRUE, sub |-> "u2", id |-> "u2"]
      [] t = "t_id3" -> [kid |-> "K1", good |-> TRUE, sub |-> None, id |-> "u3"]
      [] t = "t_anon" -> [kid |-> "K1", good |-> TRUE, sub |-> None, id |-> None]
      [] t = "t_forged" -> [kid |-> "K1", good |-> FALSE, sub |-> "u1", id |-> "u1"]
      [] OTHER -> [kid |-> None, good |-> TRUE, sub |-> "u2", id |-> "u2"]

\* Authorization header values: absent, another scheme, "Bearer " with an
\* empty token, or "Bearer <token>".
AuthzHeaders ==
    {[scheme |-> None, token |-> ""], [scheme |-> "Basic", token |-> "x"],
     [scheme |-> "Bearer", token |-> ""]}
    \cup {[scheme |-> "Bearer", token |-> t] : t \in Tokens}

\* What get_jwks gives the verification: the key set holding the kid, a key
\* set without it, or a failed fetch.
JwksOutcomes == {"has_kid", "no_kid", "fetch_error"}

\* core/auth.py: verify_token_string.
verify_token_string(token, jwks) ==
    LET t == TokenInfo(token) IN
    IF t.kid = None THEN AuthenticationError("Token missing key ID (kid)")
    ELSE IF jwks = "fetch_error" THEN JWKSError("Failed to fetch JWKS")
    ELSE IF jwks = "no_kid" THEN AuthenticationError("Key not found in JWKS")
    ELSE IF ~t.good THEN AuthenticationError("Invalid authentication token")
    ELSE [ok |-> TRUE, status_code |-> 200, detail |-> None,
          data |-> [set |-> TRUE, user_id |-> None, sub |-> t.sub, id |-> t.id]]

\* request.state before any middleware has written to it. An attribute that
\* is not set has set = FALSE (hasattr is false); request ids are positive
\* numbers and 0 stands for a request id that is not there.
Unset == "unset"
NoData == [set |-> FALSE, user_id |-> None, sub |-> None, id |-> None]
EmptyState ==
    [api_key_data |-> NoData, token_data |-> NoData, user_id |-> Unset, request_id |-> 0]
NoRequest ==
    [method |-> None, path |-> None, api_key |-> None,
     authorization |-> [scheme |-> None, token |-> ""]]
NoResponse ==
    [status |-> 0, detail |-> None, has_request_id |-> FALSE, request_id |-> "",
     x_request_id |-> 0, by |-> None]
NotHandled == [method |-> None, path |-> None, user_id |-> Unset]

\* getattr(request.state, "request_id", "unknown")
request_id_of(st) == IF st.request_id = 0 THEN "unknown" ELSE ToString(st.request_id)

\* JSONResponse(status_code=..., content={"detail": ..., "request_id": ...})
JSONError(status, detail, request_id, by) ==
    [status |-> status, detail |-> detail, has_request_id |-> TRUE,
     request_id |-> request_id, x_request_id |-> 0, by |-> by]

\* The response of the pre-refactor middleware (backend/middleware.py), whose
\* body holds only "detail".
legacy_missing_response(st) ==
    [status |-> 401, detail |-> "Authorization header missing",
     has_request_id |-> FALSE, request_id |-> "", x_request_id |-> 0, by |-> "auth"]

\* JWTAuthMiddleware.dispatch: the 401 returned when no check succeeded.
auth_missing_response(st) ==
    JSONError(401, "Authorization header missing", request_id_of(st), "auth")

\* A variant that prefers the token's identity.
extract_user_id_jwt_first(st) ==
    IF st.token_data.set
        THEN (IF st.token_data.sub # None THEN st.token_data.sub ELSE st.token_data.id)
    ELSE IF st.api_key_data.set THEN st.api_key_data.user_id
    ELSE None

\* JWTAuthMiddleware._extract_user_id
extract_user_id(st) ==
    IF st.api_key_data.set THEN st.api_key_data.user_id
    ELSE IF st.token_data.set
        THEN (IF st.token_data.sub # None THEN st.token_data.sub ELSE st.token_data.id)
    ELSE None

\* JWTAuthMiddleware._check_authentication_status
check_authentication_status(st) ==
    [has_api_key |-> st.api_key_data.set, has_jwt |-> st.token_data.set]

AuthInit ==
    /\ req = NoRequest
    /\ apc = "idle"
    /\ rstate = EmptyState
    /\ resp = NoResponse
    /\ handled = NotHandled
    /\ issued = 0

\* A request arrives; JWTAuthMiddleware is the outermost middleware
\* (core/app.py adds it last).
Receive ==
    /\ apc \in {"idle", "done"}
    /\ issued < MaxRequests
    /\ \E m \in Methods, p \in Paths, k \in ApiKeyHeaders, a \in AuthzHeaders :
         req' = [method |-> m, path |-> p, api_key |-> k, authorization |-> a]
    /\ apc' = "auth"
    /\ rstate' = EmptyState
    /\ resp' = NoResponse
    /\ handled' = NotHandled
    /\ UNCHANGED <<issued, nonAuthVars>>

\* A dispatch that examines every request.
AuthEnterAlways ==
    /\ apc = "auth"
    /\ apc' = "api_key"
    /\ UNCHANGED <<req, rstate, resp, handled, issued, nonAuthVars>>

\* JWTAuthMiddleware.dispatch up to the API key check: OPTIONS and excluded
\* paths go straight to call_next.
AuthEnter ==
    /\ apc = "auth"
    /\ apc' = IF req.method = "OPTIONS" \/ req.path \in PUBLIC_ROUTES
                THEN "ratelimit" ELSE "api_key"
    /\ UNCHANGED <<req, rstate, resp, handled, issued, nonAuthVars>>

\* The API key check going on to the JWT check after a failed key.
CheckApiKeyContinue ==
    /\ apc = "api_key"
    /\ IF req.api_key \in {None, " "}
         THEN UNCHANGED rstate
         ELSE \E answer \in ProviderAnswers(req.api_key) :
                LET r == verify_api_key(answer) IN
                IF r.ok
                  THEN rstate' = [rstate EXCEPT !.api_key_data = r.data]
                  ELSE UNCHANGED rstate
    /\ apc' = "jwt"
    /\ UNCHANGED <<req, resp, handled, issued, nonAuthVars>>

\* dispatch lines 193-202 with _validate_api_key.
CheckApiKey ==
    /\ apc = "api_key"
    /\ IF req.api_key \in {None, " "}
         THEN /\ apc' = "jwt"
              /\ UNCHANGED <<rstate, resp>>
         ELSE \E answer \in ProviderAnswers(req.api_key) :
                LET r == verify_api_key(answer) IN
                IF r.ok
                  THEN /\ rstate' = [rstate EXCEPT !.api_key_data = r.data]
                       /\ apc' = "jwt"
                       /\ UNCHANGED resp
                  ELSE /\ resp' = JSONError(r.status_code, r.detail,
                                            request_id_of(rstate), "auth")
                       /\ apc' = "done"
                       /\ UNCHANGED rstate
    /\ UNCHANGED <<req, handled, issued, nonAuthVars>>

\* dispatch lines 204-213 with _validate_jwt_token.
CheckJwt ==
    /\ apc = "jwt"
    /\ IF req.authorization.scheme # "Bearer" \/ req.authorization.token = ""
         THEN /\ apc' = "decide"
              /\ UNCHANGED <<rstate, resp>>
         ELSE \E jwks \in JwksOutcomes :
                LET r == verify_token_string(req.authorization.token, jwks) IN
                IF r.ok
                  THEN /\ rstate' = [rstate EXCEPT !.token_data = r.data]
                       /\ apc' = "decide"
                       /\ UNCHANGED resp
                  ELSE /\ resp' = JSONError(r.status_code, r.detail,
                                            request_id_of(rstate), "auth")
                       /\ apc' = "done"
                       /\ UNCHANGED rstate
    /\ UNCHANGED <<req, handled, issued, nonAuthVars>>

\* dispatch lines 215-249: at least one check succeeded, unified user id.
AuthDecide ==
    /\ apc = "decide"
    /\ LET has == check_authentication_status(rstate)
           user_id == extract_user_id(rstate) IN
       IF ~has.has_api_key /\ ~has.has_jwt
         THEN /\ resp' = auth_missing_response(rstate)
              /\ apc' = "done"
              /\ UNCHANGED rstate
         ELSE IF user_id \notin {None, ""}
           THEN /\ rstate' = [rstate EXCEPT !.user_id = user_id]
                /\ apc' = "ratelimit"
                /\ UNCHANGED resp
           ELSE /\ resp' = JSONError(401, "User ID not found in token",
                                     request_id_of(rstate), "auth")
                /\ apc' = "done"
                /\ UNCHANGED rstate
    /\ UNCHANGED <<req, handled, issued, nonAuthVars>>

\* RateLimitMiddleware.dispatch: public paths are skipped; otherwise the
\* client is either over its per-minute budget (429) or not.
RateLimit ==
    /\ apc = "ratelimit"
    /\ \/ /\ apc' = "request_id"
          /\ UNCHANGED resp
       \/ /\ req.path \notin PUBLIC_ROUTES
          /\ resp' = JSONError(429, "Rate limit exceeded", request_id_of(rstate),
                               "ratelimit")
          /\ apc' = "done"
    /\ UNCHANGED <<req, rstate, handled, issued, nonAuthVars>>

\* RequestIDMiddleware.dispatch, before call_next: a fresh uuid4.
RequestID ==
    /\ apc = "request_id"
    /\ issued' = issued + 1
    /\ rstate' = [rstate EXCEPT !.request_id = issued + 1]
    /\ apc' = "route"
    /\ UNCHANGED <<req, resp, handled, nonAuthVars>>

\* CORS and the router: an OPTIONS request is answered by the CORS
\* middleware (preflight) or finds no route for its method; any other request
\* reaches the handler of its route when the path has one for the method.
Route ==
    /\ apc = "route"
    /\ IF req.method \in RouteMethods(req.path)
         THEN /\ handled' = [method |-> req.method, path |-> req.path,
                             user_id |-> rstate.user_id]
              /\ resp' = [status |-> 200, detail |-> None, has_request_id |-> FALSE,
                          request_id |-> "", x_request_id |-> 0, by |-> "handler"]
         ELSE /\ UNCHANGED handled
              /\ \E s \in (IF req.method = "OPTIONS" THEN {200, 400, 405} ELSE {405}) :
                   resp' = [status |-> s, detail |-> "Method Not Allowed",
                            has_request_id |-> FALSE, request_id |-> "",
                            x_request_id |-> 0,
                            by |-> IF s = 405 THEN "router" ELSE "cors"]
    /\ apc' = "respond"
    /\ UNCHANGED <<req, rstate, issued, nonAuthVars>>

\* RequestIDMiddleware.dispatch, after call_next: the X-Request-ID header.
Respond ==
    /\ apc = "respond"
    /\ resp' = [resp EXCEPT !.x_request_id = rstate.request_id]
    /\ apc' = "done"
    /\ UNCHANGED <<req, rstate, handled, issued, nonAuthVars>>


(***************************************************************************)
(* CONVERSATIONS AND CHAT REQUESTS                                         *)
(***************************************************************************)

\* routers/chat.py line 121: a last user message younger than this many
\* seconds with the same content is a duplicate.
DedupeWindow == 5

Users == {"u1", "u2"}
Procs == {"p1", "p2", "p3"}
\* A text is the sequence of its characters.
UserContents == {<<"A">>, <<"B">>}
AssistantContents == {<<>>, <<"X">>}
Models == {"m1", "m2"}
DEFAULT_TITLE ==
    <<"N", "e", "w", " ", "C", "o", "n", "v", "e", "r", "s", "a", "t", "i", "o", "n">>

\* Message rows carry, besides their columns, what the properties below refer to
\* about how they came to be: the request that inserted the row (by), when
\* that request arrived and when it read the stored messages, and the last
\* stored row of the same role at the moment of the insert (prevId, 0 for
\* none).
NoRow ==
    [id |-> 0, role |-> None, content |-> <<>>, model |-> None, created_at |-> 0,
     by |-> None, arrived |-> 0, checkedAt |-> 0, prevId |-> 0]

IdleProc ==
    [pc |-> "idle", user |-> None, content |-> <<>>, acontent |-> <<>>, model |-> None,
     arrived |-> 0, checkedAt |-> 0, status |-> 0, user_message_id |-> 0,
     newTitle |-> <<>>]

RECURSIVE SelectRole(_, _)
SelectRole(rows, role) ==
    IF rows = <<>> THEN <<>>
    ELSE IF Head(rows).role = role
        THEN <<Head(rows)>> \o SelectRole(Tail(rows), role)
        ELSE SelectRole(Tail(rows), role)

LastOf(rows) == IF rows = <<>> THEN NoRow ELSE rows[Len(rows)]

RowIds(rows) == {rows[i].id : i \in 1..Len(rows)}

RECURSIVE Without(_, _)
Without(rows, id) ==
    IF rows = <<>> THEN <<>>
    ELSE IF Head(rows).id = id THEN Tail(rows)
    ELSE <<Head(rows)>> \o Without(Tail(rows), id)

\* A lookup that does not filter by the owner.
get_conversation_any_user(c, user_id) == c.exists

\* ConversationService.get_conversation: the row, only for its owner.
get_conversation(c, user_id) == c.exists /\ c.user_id = user_id

\* A plain select: no row lock is taken.
select_without_lock(lk, p, found) == lk

\* ConversationService.get_conversation_for_update: the holder of the row
\* lock after the SELECT ... FOR UPDATE of request p; no row, no lock.
get_conversation_for_update(lk, p, found) == IF found THEN p ELSE lk

\* The SELECT ... FOR UPDATE, and every UPDATE or DELETE of the row, waits
\* while another transaction holds the row lock.
RowAvailable(p) == lock \in {None, p}

\* No comparison with the stored messages.
no_duplicate_check(rows, content, t) == FALSE

\* save_user_messages lines 114-126: the last stored user message has the
\* same content and is younger than the window.
is_duplicate(rows, content, t) ==
    /\ rows # <<>>
    /\ LastOf(rows).content = content
    /\ t - LastOf(rows).created_at < DedupeWindow

\* The characters str.strip() removes from both ends, as far as the texts of
\* the model have them.
Whitespace == {" ", "\n"}

RECURSIVE lstrip(_)
lstrip(text) ==
    IF text # <<>> /\ Head(text) \in Whitespace THEN lstrip(Tail(text)) ELSE text

RECURSIVE rstrip(_)
rstrip(text) ==
    IF text # <<>> /\ text[Len(text)] \in Whitespace
      THEN rstrip(SubSeq(text, 1, Len(text) - 1))
      ELSE text

str_strip(text) == rstrip(lstrip(text))

Ellipsis == <<".", ".", ".">>

\* The title without the truncation to 50 characters.
title_untruncated(first_message) ==
    LET title == str_strip(first_message) IN
    IF title = <<>> THEN DEFAULT_TITLE ELSE title

\* ConversationService.generate_conversation_title: strip, cut to 47
\* characters and an ellipsis beyond 50, the default title for an empty
\* result, cut to 252 characters and an ellipsis beyond 255.
generate_conversation_title(first_message) ==
    LET title == str_strip(first_message)
        cut == IF Len(title) > 50 THEN SubSeq(title, 1, 47) \o Ellipsis ELSE title
        named == IF cut = <<>> THEN DEFAULT_TITLE ELSE cut
    IN  IF Len(named) > 255 THEN SubSeq(named, 1, 252) \o Ellipsis ELSE named

Op(op, user, status, rows) ==
    [op |-> op, user |-> user, status |-> status, rows |-> rows]

ChatInit ==
    /\ conv = [exists |-> TRUE, user_id |-> "u1", title |-> DEFAULT_TITLE]
    /\ msgs = <<>>
    /\ nextMsgId = 0
    /\ lock = None
    /\ now = 0
    /\ cp = [p \in Procs |-> IdleProc]
    /\ lastOp = Op(None, None, 0, {})
    /\ closeEarly = FALSE

\* The requests are numbered in the order in which they arrive.
Earlier(p) ==
    CASE p = "p1" -> {} [] p = "p2" -> {"p1"} [] OTHER -> {"p1", "p2"}

\* The requests that have arrived and are not answered completely.
InFlight == {p \in Procs : cp[p].pc \notin {"idle", "done"}}

\* The first message sent is called A.
ContentsOf(p) == IF Earlier(p) = {} THEN {<<"A">>} ELSE UserContents

Arrive(p, u) ==
    /\ cp[p].pc = "idle"
    /\ \A q \in Earlier(p) : cp[q].pc # "idle"
    /\ Cardinality(InFlight) < MaxOverlap
    /\ \E c \in ContentsOf(p) :
         cp' = [cp EXCEPT ![p] = [@ EXCEPT !.pc = "save_user", !.user = u,
                                           !.content = c, !.arrived = now]]
    /\ closeEarly' \in IF Earlier(p) = {} THEN BOOLEAN ELSE {closeEarly}
    /\ UNCHANGED <<conv, msgs, nextMsgId, lock, now, lastOp, nonChatVars>>

\* POST /chat with the conversation_id arrives from the conversation's owner.
Submit(p) == Arrive(p, "u1")

\* POST /chat with the conversation_id arrives from another principal.
SubmitForeign(p) == Arrive(p, "u2")

\* The handler returns the StreamingResponse (status 200). The request's
\* database session is closed (get_session's finally) once the handler has
\* returned, which ends an open transaction and its row lock: before the body
\* is streamed or after it, depending on the framework version (closeEarly).
Streaming(me, id) ==
    [me EXCEPT !.pc = "stream", !.status = 200, !.user_message_id = id,
               !.arrived = 0, !.checkedAt = 0]

\* save_user_messages lines 86-126: lock the conversation, read its messages,
\* compare the last stored user message with the one being sent.
CheckUser(p) ==
    /\ cp[p].pc = "save_user"
    /\ LET me == cp[p]
           found == get_conversation(conv, me.user)
           held == get_conversation_for_update(lock, p, found)
           users == SelectRole(msgs, "user")
           dup == found /\ is_duplicate(users, me.content, now) IN
       /\ found => RowAvailable(p)
       /\ IF ~found \/ dup
            THEN \* not found: get_conversation_messages raises 404, caught;
                 \* duplicate: the stored row's id is returned, nothing commits
                 /\ cp' = [cp EXCEPT ![p] =
                              Streaming(me, IF dup THEN LastOf(users).id ELSE 0)]
                 /\ lock' = IF closeEarly /\ held = p THEN None ELSE held
            ELSE /\ cp' = [cp EXCEPT ![p] = [@ EXCEPT !.pc = "add_user",
                                                     !.checkedAt = now]]
                 /\ lock' = held
    /\ UNCHANGED <<conv, msgs, nextMsgId, now, lastOp, closeEarly, nonChatVars>>

\* ConversationService.add_message: insert the row and commit, which ends
\* the transaction and with it the row lock.
add_message(p, role, content, model) ==
    LET last == LastOf(SelectRole(msgs, role)) IN
    /\ nextMsgId' = nextMsgId + 1
    /\ msgs' = Append(msgs, [id |-> nextMsgId + 1, role |-> role, content |-> content,
                             model |-> model, created_at |-> now, by |-> p,
                             arrived |-> cp[p].arrived, checkedAt |-> cp[p].checkedAt,
                             prevId |-> last.id])
    /\ lock' = IF lock = p THEN None ELSE lock

\* save_user_messages lines 128-155.
AddUser(p) ==
    /\ cp[p].pc = "add_user"
    /\ IF get_conversation(conv, cp[p].user)
         THEN /\ add_message(p, "user", cp[p].content, None)
              /\ cp' = [cp EXCEPT ![p] = Streaming(@, nextMsgId + 1)]
         ELSE /\ UNCHANGED <<msgs, nextMsgId, lock>>
              /\ cp' = [cp EXCEPT ![p] = Streaming(@, 0)]
    /\ UNCHANGED <<conv, now, lastOp, closeEarly, nonChatVars>>

\* The stream reaches its end with the accumulated assistant content;
\* save_assistant_message_if_new returns at once for empty content.
StreamEndWith(p, a, m) ==
    /\ cp[p].pc = "stream"
    /\ cp' = [cp EXCEPT ![p] = [@ EXCEPT !.acontent = a, !.model = m,
                 !.pc = IF a = <<>> THEN "finished" ELSE "save_asst"]]
    /\ UNCHANGED <<conv, msgs, nextMsgId, lock, now, lastOp, closeEarly, nonChatVars>>

StreamEnd(p) == \E a \in AssistantContents, m \in Models : StreamEndWith(p, a, m)

\* A stream whose reply has no content.
StreamEndEmpty(p) == StreamEndWith(p, <<>>, "m1")

\* save_assistant_message_if_new lines 258-268: an assistant message with the
\* same content and model is stored already.
assistant_exists(rows, content, model) ==
    \E i \in 1..Len(rows) :
        rows[i].role = "assistant" /\ rows[i].content = content /\ rows[i].model = model

\* save_assistant_message_if_new lines 243-268.
CheckAssistant(p) ==
    /\ cp[p].pc = "save_asst"
    /\ LET me == cp[p]
           found == get_conversation(conv, me.user) IN
       /\ found => RowAvailable(p)
       /\ lock' = get_conversation_for_update(lock, p, found)
       /\ IF ~found \/ assistant_exists(msgs, me.acontent, me.model)
            THEN cp' = [cp EXCEPT ![p].pc = "finished"]
            ELSE cp' = [cp EXCEPT ![p].pc = "add_asst"]
    /\ UNCHANGED <<conv, msgs, nextMsgId, now, lastOp, closeEarly, nonChatVars>>

\* save_assistant_message_if_new lines 270-281.
AddAssistant(p) ==
    /\ cp[p].pc = "add_asst"
    /\ IF get_conversation(conv, cp[p].user)
         THEN /\ add_message(p, "assistant", cp[p].acontent, cp[p].model)
              /\ cp' = [cp EXCEPT ![p].pc = "title"]
         ELSE /\ UNCHANGED <<msgs, nextMsgId, lock>>
              /\ cp' = [cp EXCEPT ![p].pc = "finished"]
    /\ UNCHANGED <<conv, now, lastOp, closeEarly, nonChatVars>>

\* auto_update_conversation_title lines 169-204: read the title and, when
\* it is a default one, derive the new title from the first user message.
TitleRead(p) ==
    /\ cp[p].pc = "title"
    /\ LET users == SelectRole(msgs, "user") IN
       IF get_conversation(conv, cp[p].user) /\ conv.title = DEFAULT_TITLE
          /\ users # <<>>
         THEN cp' = [cp EXCEPT ![p] = [@ EXCEPT !.pc = "title_write",
                        !.newTitle = generate_conversation_title(Head(users).content)]]
         ELSE cp' = [cp EXCEPT ![p].pc = "finished"]
    /\ UNCHANGED <<conv, msgs, nextMsgId, lock, now, lastOp, closeEarly, nonChatVars>>

\* auto_update_conversation_title lines 206-212: update_conversation.
TitleWrite(p) ==
    /\ cp[p].pc = "title_write"
    /\ IF get_conversation(conv, cp[p].user)
         THEN /\ RowAvailable(p)
              /\ conv' = [conv EXCEPT !.title = cp[p].newTitle]
              /\ lock' = IF lock = p THEN None ELSE lock
         ELSE UNCHANGED <<conv, lock>>
    /\ cp' = [cp EXCEPT ![p] = [@ EXCEPT !.pc = "finished", !.newTitle = <<>>]]
    /\ UNCHANGED <<msgs, nextMsgId, now, lastOp, closeEarly, nonChatVars>>

\* The response is complete; a session that is still open is closed now.
Finish(p) ==
    /\ cp[p].pc = "finished"
    /\ cp' = [cp EXCEPT ![p].pc = "done"]
    /\ lock' = IF lock = p /\ ~closeEarly THEN None ELSE lock
    /\ UNCHANGED <<conv, msgs, nextMsgId, now, lastOp, closeEarly, nonChatVars>>

\* GET /chat/conversations/{id}: get_conversation, then the messages.
GetConversation(u) ==
    /\ lastOp' = IF get_conversation(conv, u)
                   THEN Op("get", u, 200, RowIds(msgs))
                   ELSE Op("get", u, 404, {})
    /\ UNCHANGED <<conv, msgs, nextMsgId, lock, now, cp, closeEarly, nonChatVars>>

\* PATCH /chat/conversations/{id}: ConversationService.update_conversation.
UpdateTitle(u) ==
    /\ IF get_conversation(conv, u)
         THEN /\ lock = None
              /\ conv' = [conv EXCEPT !.title = <<"R", "e", "n", "a", "m", "e", "d">>]
              /\ lastOp' = Op("update_title", u, 200, {})
         ELSE /\ UNCHANGED conv
              /\ lastOp' = Op("update_title", u, 404, {})
    /\ UNCHANGED <<msgs, nextMsgId, lock, now, cp, closeEarly, nonChatVars>>

\* A delete of the conversation row alone, with no cascade to its messages.
DeleteConversationRowOnly(u) ==
    /\ IF get_conversation(conv, u)
         THEN /\ lock = None
              /\ conv' = [conv EXCEPT !.exists = FALSE]
              /\ lastOp' = Op("delete", u, 204, {})
         ELSE /\ UNCHANGED conv
              /\ lastOp' = Op("delete", u, 404, {})
    /\ UNCHANGED <<msgs, nextMsgId, lock, now, cp, closeEarly, nonChatVars>>

\* DELETE /chat/conversations/{id}: ConversationService.delete_conversation.
DeleteConversation(u) ==
    /\ IF get_conversation(conv, u)
         THEN /\ lock = None
              /\ conv' = [conv EXCEPT !.exists = FALSE]
              /\ msgs' = <<>>
              /\ lastOp' = Op("delete", u, 204, {})
         ELSE /\ UNCHANGED <<conv, msgs>>
              /\ lastOp' = Op("delete", u, 404, {})
    /\ UNCHANGED <<nextMsgId, lock, now, cp, closeEarly, nonChatVars>>

\* DELETE /chat/messages/{id}: ConversationService.delete_message, the
\* message joined with a conversation of the principal.
DeleteMessage(u) ==
    /\ \E id \in 1..nextMsgId :
         IF id \in RowIds(msgs) /\ get_conversation(conv, u)
           THEN /\ lock = None
                /\ msgs' = Without(msgs, id)
                /\ lastOp' = Op("delete_message", u, 204, {})
           ELSE /\ UNCHANGED msgs
                /\ lastOp' = Op("delete_message", u, 404, {})
    /\ UNCHANGED <<conv, nextMsgId, lock, now, cp, closeEarly, nonChatVars>>

Tick ==
    /\ now < MaxTime
    /\ \E p \in Procs : cp[p].pc # "done"
    /\ now' = now + 1
    /\ UNCHANGED <<conv, msgs, nextMsgId, lock, cp, lastOp, closeEarly, nonChatVars>>

\* Chat requests of the owner and what their streams save.
ChatNext ==
    \/ \E p \in Procs : Submit(p)
    \/ \E p \in Procs : CheckUser(p)
    \/ \E p \in Procs : AddUser(p)
    \/ \E p \in Procs : StreamEnd(p)
    \/ \E p \in Procs : CheckAssistant(p)
    \/ \E p \in Procs : AddAssistant(p)
    \/ \E p \in Procs : TitleRead(p)
    \/ \E p \in Procs : TitleWrite(p)
    \/ \E p \in Procs : Finish(p)

\* The user messages of chat requests against the clock: the replies of this
\* specification are empty, so nothing is saved after a stream.
DedupeNext ==
    \/ \E p \in Procs : Submit(p)
    \/ \E p \in Procs : CheckUser(p)
    \/ \E p \in Procs : AddUser(p)
    \/ \E p \in Procs : StreamEndEmpty(p)
    \/ \E p \in Procs : Finish(p)
    \/ Tick

\* The conversation operations of every principal, with a chat request of the
\* owner and one of another principal.
ConvProcs == {"p1", "p2"}
ConvNext ==
    \/ Submit("p1")
    \/ SubmitForeign("p2")
    \/ \E p \in ConvProcs : CheckUser(p)
    \/ \E p \in ConvProcs : AddUser(p)
    \/ \E p \in ConvProcs : StreamEnd(p)
    \/ \E p \in ConvProcs : CheckAssistant(p)
    \/ \E p \in ConvProcs : AddAssistant(p)
    \/ \E p \in ConvProcs : TitleRead(p)
    \/ \E p \in ConvProcs : TitleWrite(p)
    \/ \E p \in ConvProcs : Finish(p)
    \/ \E u \in Users : GetConversation(u)
    \/ \E u \in Users : UpdateTitle(u)
    \/ \E u \in Users : DeleteConversation(u)
    \/ \E u \in Users : DeleteMessage(u)

(***************************************************************************)
(* ONE SSE STREAM                                                          *)
(***************************************************************************)

\* What the upstream sends in one chunk: message.content (empty, blank or
\* text), thinking content or none, and the done flag.
ChunkContents == {"", " ", "a"}
Thinkings == {None, "t"}
UpstreamChunks ==
    [content : ChunkContents, thinking : Thinkings, done : BOOLEAN]

\* What save_assistant_message_if_new returns: the id of the stored row, or
\* None (0) when the conversation is not found or the save fails.
SaveResults == {0, 1}

strip(content) == IF content = " " THEN "" ELSE content

\* StreamState; tried and malformed are not fields of it: tried records the
\* content handed to save_assistant_message_if_new, empty while no save was
\* attempted, and malformed that the upstream sent a malformed chunk.
StreamState ==
    [assistant_content |-> <<>>, chunk_id |-> 0, assistant_message_id |-> 0,
     done |-> FALSE, tried |-> <<>>, malformed |-> FALSE]

Frame(kind, text) == [kind |-> kind, text |-> text]

StreamInit ==
    /\ sreq = [conversation_id |-> FALSE, user_message_id |-> 0]
    /\ spc = "idle"
    /\ nchunks = 0
    /\ sstate = StreamState
    /\ out = <<>>

\* chat(): the handler returns the StreamingResponse; a user_message_id
\* exists only for a request with a conversation_id.
StreamStart ==
    /\ spc = "idle"
    /\ \E c \in BOOLEAN, u \in {0, 1} :
         /\ (u = 1) => c
         /\ sreq' = [conversation_id |-> c, user_message_id |-> u]
    /\ spc' = "streaming"
    /\ UNCHANGED <<nchunks, sstate, out, nonStreamVars>>

\* The condition under which the three completion paths save the reply.
should_save(st) ==
    sreq.conversation_id /\ st.assistant_content # <<>> /\ st.assistant_message_id = 0

\* The reply is saved where should_save holds; saved is the id returned.
after_save(st, saved) ==
    IF should_save(st)
      THEN [st EXCEPT !.assistant_message_id = saved, !.tried = st.assistant_content]
      ELSE st

\* _handle_stream_completion lines 406-416, after the save: the message ids
\* when there is one, the final chunk, the terminator.
completion_frames(st) ==
    (IF sreq.user_message_id # 0 \/ st.assistant_message_id # 0
        THEN <<Frame("message_ids", "")>> ELSE <<>>)
    \o <<Frame("stop", ""), Frame("DONE", "")>>

\* The chunk handling with every non-empty content put into the buffer,
\* blank or not.
process_chunk_data_any_content(st, data, saved) ==
    LET spoken == data.content # "" /\ strip(data.content) # ""
        st1 == IF data.content # ""
                 THEN [st EXCEPT !.assistant_content = Append(@, data.content)]
                 ELSE st
        thinking == IF data.thinking # None
                      THEN <<Frame("thinking", data.thinking)>> ELSE <<>>
        content == IF spoken THEN <<Frame("content", data.content)>> ELSE <<>>
        st2 == IF spoken THEN [st1 EXCEPT !.chunk_id = @ + 1] ELSE st1
        st3 == IF data.done THEN after_save([st2 EXCEPT !.done = TRUE], saved) ELSE st2
    IN [state |-> st3,
        frames |-> thinking \o content
                     \o (IF data.done THEN completion_frames(st3) ELSE <<>>)]

\* generate_streaming_response lines 443-450 with _process_chunk_data, on a
\* chunk stream_chat yielded: the frames for it and the StreamState after it.
process_chunk_data(st, data, saved) ==
    LET spoken == data.content # "" /\ strip(data.content) # ""
        st1 == IF spoken
                 THEN [st EXCEPT !.assistant_content = Append(@, data.content)]
                 ELSE st
        thinking == IF data.thinking # None
                      THEN <<Frame("thinking", data.thinking)>> ELSE <<>>
        content == IF spoken THEN <<Frame("content", data.content)>> ELSE <<>>
        st2 == IF spoken THEN [st1 EXCEPT !.chunk_id = @ + 1] ELSE st1
        st3 == IF data.done THEN after_save([st2 EXCEPT !.done = TRUE], saved) ELSE st2
    IN [state |-> st3,
        frames |-> thinking \o content
                     \o (IF data.done THEN completion_frames(st3) ELSE <<>>)]

\* _finalize_stream: save what was not saved; the message ids when there is
\* one and the stream did not see done.
finalize_stream(st, saved) ==
    LET st1 == after_save(st, saved) IN
    [state |-> st1,
     frames |-> IF (sreq.user_message_id # 0 \/ st1.assistant_message_id # 0)
                   /\ ~st1.done
                  THEN <<Frame("message_ids", "")>> ELSE <<>>]

\* stream_chat lines 59-66: a chunk is passed on only with content or thinking.
yields(chunk) == chunk.content # "" \/ chunk.thinking # None

\* One upstream chunk through stream_chat and generate_streaming_response.
\* After a done chunk stream_chat stops, the loop of
\* generate_streaming_response ends and _finalize_stream runs.
Chunk ==
    /\ spc = "streaming"
    /\ nchunks < MaxChunks
    /\ \E chunk \in UpstreamChunks, s1, s2 \in SaveResults :
         LET r == IF yields(chunk)
                    THEN process_chunk_data(sstate, chunk, s1)
                    ELSE [state |-> sstate, frames |-> <<>>]
             f == finalize_stream(r.state, s2)
         IN IF chunk.done
              THEN /\ sstate' = f.state
                   /\ out' = out \o r.frames \o f.frames
                   /\ spc' = "closed"
              ELSE /\ sstate' = r.state
                   /\ out' = out \o r.frames
                   /\ spc' = "streaming"
    /\ nchunks' = nchunks + 1
    /\ UNCHANGED <<sreq, nonStreamVars>>

\* The upstream ends without a done chunk: stream_chat returns, the loop of
\* generate_streaming_response ends and _finalize_stream runs.
UpstreamEOF ==
    /\ spc = "streaming"
    /\ \E s \in SaveResults :
         LET f == finalize_stream(sstate, s) IN
         /\ sstate' = f.state
         /\ out' = out \o f.frames
    /\ spc' = "closed"
    /\ UNCHANGED <<sreq, nchunks, nonStreamVars>>

\* The upstream call or its iteration raises: stream_chat lines 71-96 yield
\* a chunk with the error text as content and done set.
UpstreamError ==
    /\ spc = "streaming"
    /\ \E s1, s2 \in SaveResults :
         LET r == process_chunk_data(sstate,
                     [content |-> "Error", thinking |-> None, done |-> TRUE], s1)
             f == finalize_stream(r.state, s2)
         IN /\ sstate' = f.state
            /\ out' = out \o r.frames \o f.frames
    /\ spc' = "closed"
    /\ UNCHANGED <<sreq, nchunks, nonStreamVars>>

\* The upstream sends a chunk whose message.content is not a string:
\* ChatResponse(content=...) of stream_chat lines 58-63 raises inside the try
\* of line 45, the async for over the upstream is left, and lines 68-96 yield
\* the chunk with the error text as content and done set.
MalformedChunk ==
    /\ spc = "streaming"
    /\ nchunks < MaxChunks
    /\ \E s1, s2 \in SaveResults :
         LET r == process_chunk_data([sstate EXCEPT !.malformed = TRUE],
                     [content |-> "Error", thinking |-> None, done |-> TRUE], s1)
             f == finalize_stream(r.state, s2)
         IN /\ sstate' = f.state
            /\ out' = out \o r.frames \o f.frames
    /\ spc' = "closed"
    /\ nchunks' = nchunks + 1
    /\ UNCHANGED <<sreq, nonStreamVars>>

\* The client disconnects while the body is streamed: the task that iterates
\* generate_streaming_response is cancelled, or the generator is closed at
\* its yield. CancelledError and GeneratorExit are not Exception, so the
\* except clause of line 464 does not run and there is no finally.
ClientDisconnect ==
    /\ spc = "streaming"
    /\ spc' = "aborted"
    /\ UNCHANGED <<sreq, nchunks, sstate, out, nonStreamVars>>

StreamNext ==
    \/ StreamStart
    \/ Chunk
    \/ UpstreamEOF
    \/ UpstreamError
    \/ MalformedChunk
    \/ ClientDisconnect

(***************************************************************************)
(* JOB SCHEDULER AND HISTORY                                               *)
(***************************************************************************)

JobIds == {"j1", "j2"}
TriggerTypes == {"once", "interval", "cron"}

\* core/config.py: the scheduler is re-read this many times, this many
\* milliseconds apart.
JOB_PERSISTENCE_VERIFY_MAX_RETRIES == 5
JOB_PERSISTENCE_VERIFY_RETRY_DELAY_MS == 200

NoJob == [row |-> FALSE, trigger |-> None]

\* str(job.trigger) of the DateTrigger, IntervalTrigger and CronTrigger the
\* add_* functions build.
trigger_str(t) ==
    CASE t = "once" -> "date[run_date]"
      [] t = "interval" -> "interval[0:00:10]"
      [] OTHER -> "cron[minute='*']"

\* The substring tests of the listeners and of JobService._save_job_history
\* on the lower-cased trigger string; None when none matches.
detect(ts) ==
    CASE ts \in {"cron[minute='*']"} -> "cron"
      [] ts \in {"interval[0:00:10]"} -> "interval"
      [] ts \in {"date[run_date]", "date[one-time]"} -> "once"
      [] OTHER -> None

\* A lookup that finds every id.
get_job_assumed(js, j) == TRUE

\* core.jobs.get_job: scheduler.get_job looks the id up in the job store.
get_job(js, j) == js[j].row

\* core.jobs.list_all_jobs_from_store: the ids of the raw rows of the table.
list_all_jobs_from_store(js) == {j \in JobIds : js[j].row}

\* scheduler.remove_job: the row is deleted.
remove_job(js, j) == [js EXCEPT ![j] = NoJob]

\* A call binds its keyword arguments to the parameters of the function; a
\* keyword that names no parameter raises TypeError.
binds(params, kwargs) == kwargs \subseteq params

\* JobService._save_job_history (services/job_service.py lines 90-98).
JobService_save_job_history_params ==
    {"session", "job", "status", "user_id", "error_message", "trigger_type"}

\* JobHistoryService.save_job_history (services/job_history_service.py 19-28).
JobHistoryService_save_job_history_params ==
    {"session", "job", "status", "user_id", "error_message", "logs", "trigger_type"}

\* The names services/job_history_service.py defines.
job_history_service_names == {"JobHistoryService", "logger", "detect_trigger_type"}

\* from <module> import <name>: ImportError when the module has no such name.
importable(names, name) == name \in names

\* An entry of utils.job_log_storage._job_logs: whether the key is there,
\* the capture that stored it and the executions whose output it holds.
NoLogs == [there |-> FALSE, by |-> 0, sources |-> {}]

IdleAdd ==
    [pc |-> "idle", job_id |-> None, attempt |-> 0, seenAt |-> 0, sawRow |-> FALSE,
     present |-> FALSE, elapsed |-> 0]

NoExec ==
    [job_id |-> None, trigger |-> None, pc |-> "none", outcome |-> None,
     mark |-> "none", lpc |-> "none", ltrigger |-> None, ltype |-> None,
     llogs |-> FALSE]

HistoryRow(j, status, ts, tt, e, err, logs) ==
    [job_id |-> j, status |-> status, trigger |-> ts, trigger_type |-> tt,
     created_at |-> now, exec |-> e, error_message |-> err, logs |-> logs]

\* The most recent history row of a job, or none (order_by created_at desc,
\* limit 1).
RECURSIVE latest_history(_, _)
latest_history(rows, j) ==
    IF rows = <<>> THEN [job_id |-> None, trigger |-> None, trigger_type |-> None]
    ELSE IF rows[Len(rows)].job_id = j
        THEN [job_id |-> j, trigger |-> rows[Len(rows)].trigger,
              trigger_type |-> rows[Len(rows)].trigger_type]
        ELSE latest_history(SubSeq(rows, 1, Len(rows) - 1), j)

JobsInit ==
    /\ jobstore = [j \in JobIds |-> NoJob]
    /\ sched_running = TRUE
    /\ addc = IdleAdd
    /\ execs = [e \in 1..MaxExecs |-> NoExec]
    /\ nextExec = 0
    /\ history = <<>>
    /\ stored_logs = [j \in JobIds |-> NoLogs]
    /\ listener_logs = [j \in JobIds |-> FALSE]

\* add_scheduled_job, add_interval_job, add_one_time_job up to the return of
\* scheduler.add_job: the scheduler is started when it is not running; the
\* add raises (a conflicting id without replace_existing, a store error), or
\* returns with the row written, or returns with the write lost.
AddJob(j, t) ==
    /\ addc.pc = "idle"
    /\ sched_running' = TRUE
    /\ \E replace_existing \in BOOLEAN, write \in {"stored", "lost", "raised"} :
         IF write = "raised" \/ (~replace_existing /\ get_job(jobstore, j))
           THEN /\ addc' = [IdleAdd EXCEPT !.pc = "failed", !.job_id = j]
                /\ UNCHANGED jobstore
           ELSE /\ addc' = [IdleAdd EXCEPT !.pc = "verify", !.job_id = j]
                /\ jobstore' = IF write = "stored"
                                 THEN [jobstore EXCEPT ![j] = [row |-> TRUE, trigger |-> t]]
                                 ELSE jobstore
    /\ UNCHANGED <<execs, nextExec, history, stored_logs, listener_logs, nonJobVars>>

\* _verify_job_persistence lines 63-95: one pass of the loop; a read that
\* raises counts as a miss; no sleep after the last read.
VerifyRead ==
    /\ addc.pc = "verify"
    /\ IF addc.attempt = 0 /\ ~sched_running
         THEN addc' = [addc EXCEPT !.pc = "failed"]
         ELSE \E raises \in BOOLEAN :
                IF ~raises /\ get_job(jobstore, addc.job_id)
                  THEN addc' = [addc EXCEPT !.pc = "returned", !.seenAt = addc.attempt + 1,
                                            !.attempt = addc.attempt + 1,
                                            !.present = jobstore[addc.job_id].row]
                  ELSE IF addc.attempt + 1 < JOB_PERSISTENCE_VERIFY_MAX_RETRIES
                    THEN addc' = [addc EXCEPT !.attempt = @ + 1,
                             !.elapsed = @ + JOB_PERSISTENCE_VERIFY_RETRY_DELAY_MS]
                    ELSE addc' = [addc EXCEPT !.attempt = @ + 1, !.pc = "raw"]
    /\ UNCHANGED <<jobstore, sched_running, execs, nextExec, history, stored_logs,
                   listener_logs, nonJobVars>>

\* _verify_job_persistence lines 97-131: the raw table, then RuntimeError.
VerifyRaw ==
    /\ addc.pc = "raw"
    /\ \E raises \in BOOLEAN :
         IF ~raises /\ addc.job_id \in list_all_jobs_from_store(jobstore)
           THEN addc' = [addc EXCEPT !.pc = "returned", !.sawRow = TRUE,
                                     !.present = jobstore[addc.job_id].row]
           ELSE addc' = [addc EXCEPT !.pc = "failed"]
    /\ UNCHANGED <<jobstore, sched_running, execs, nextExec, history, stored_logs,
                   listener_logs, nonJobVars>>

\* The add_* call is over: the job id returned, or RuntimeError raised.
AddReturn ==
    /\ addc.pc \in {"returned", "failed"}
    /\ addc' = IdleAdd
    /\ UNCHANGED <<jobstore, sched_running, execs, nextExec, history, stored_logs,
                   listener_logs, nonJobVars>>

\* The scheduler finds job j due and hands it to the executor. A job with a
\* date trigger has no further run: the scheduler deletes its row when it
\* submits the run, or has not done so yet.
RunJob(j) ==
    /\ sched_running
    /\ get_job(jobstore, j)
    /\ nextExec < MaxExecs
    /\ nextExec' = nextExec + 1
    /\ execs' = [execs EXCEPT ![nextExec + 1] =
                    [NoExec EXCEPT !.job_id = j, !.trigger = jobstore[j].trigger,
                                   !.pc = "submitted"]]
    /\ \E removed \in BOOLEAN :
         jobstore' = IF jobstore[j].trigger = "once" /\ removed
                       THEN remove_job(jobstore, j) ELSE jobstore
    /\ UNCHANGED <<sched_running, addc, history, stored_logs, listener_logs, nonJobVars>>

\* The scheduler events for which setup_job_listeners registers a listener.
registered_events == {"EVENT_JOB_EXECUTED", "EVENT_JOB_ERROR"}

\* The scheduler finds job j due, later than its fire time by more than
\* misfire_grace_time: the run is submitted and a date job leaves the store
\* as in RunJob, the executor skips the function and dispatches
\* EVENT_JOB_MISSED, for which no listener is registered, so that no history
\* row is written.
MisfireJob(j) ==
    /\ sched_running
    /\ get_job(jobstore, j)
    /\ nextExec < MaxExecs
    /\ nextExec' = nextExec + 1
    /\ execs' = [execs EXCEPT ![nextExec + 1] =
                    [NoExec EXCEPT !.job_id = j, !.trigger = jobstore[j].trigger,
                                   !.pc = "missed"]]
    /\ \E removed \in BOOLEAN :
         jobstore' = IF jobstore[j].trigger = "once" /\ removed
                       THEN remove_job(jobstore, j) ELSE jobstore
    /\ "EVENT_JOB_MISSED" \notin registered_events
    /\ UNCHANGED <<sched_running, addc, history, stored_logs, listener_logs, nonJobVars>>

\* execute_job_with_logging lines 279-286: the function is imported (a
\* failure ends the run with the error event), then the mark-running task is
\* created.
StartJob(e) ==
    /\ execs[e].pc = "submitted"
    /\ \E imported \in BOOLEAN :
         execs' = [execs EXCEPT ![e] =
                     IF imported
                       THEN [@ EXCEPT !.pc = "running", !.mark = "pending"]
                       ELSE [@ EXCEPT !.pc = "finished", !.outcome = "failed",
                                      !.lpc = "pending"]]
    /\ UNCHANGED <<jobstore, sched_running, addc, nextExec, history, stored_logs,
                   listener_logs, nonJobVars>>

\* execute_job_with_logging lines 289-305: the function returns or raises,
\* the captured logs go to utils.job_log_storage, and the executor dispatches
\* EVENT_JOB_EXECUTED or EVENT_JOB_ERROR, for which the listener creates its
\* task.
FinishJob(e) ==
    /\ execs[e].pc = "running"
    /\ \E result \in {"completed", "failed"} :
         execs' = [execs EXCEPT ![e] = [@ EXCEPT !.pc = "finished", !.outcome = result,
                                                 !.lpc = "pending"]]
    /\ stored_logs' = [stored_logs EXCEPT ![execs[e].job_id].there = TRUE]
    /\ UNCHANGED <<jobstore, sched_running, addc, nextExec, history, listener_logs,
                   nonJobVars>>

\* _mark_job_running: the import of JobHistoryParams, then save_job_history
\* with the keyword params; either failure is logged and nothing is written.
MarkRunning(e) ==
    /\ execs[e].mark = "pending"
    /\ execs' = [execs EXCEPT ![e].mark = "done"]
    /\ IF /\ importable(job_history_service_names, "JobHistoryParams")
          /\ binds(JobHistoryService_save_job_history_params,
                   {"session", "job", "status", "params"})
         THEN history' = Append(history,
                  HistoryRow(execs[e].job_id, "running",
                             IF get_job(jobstore, execs[e].job_id)
                               THEN trigger_str(jobstore[execs[e].job_id].trigger)
                               ELSE "date[one-time]",
                             "once", e, FALSE, FALSE))
         ELSE UNCHANGED history
    /\ UNCHANGED <<jobstore, sched_running, addc, nextExec, stored_logs, listener_logs,
                   nonJobVars>>

\* _job_executed_listener_async lines 177-238 and _job_error_listener_async
\* lines 364-425: the job from the scheduler, or a MinimalJob from the most
\* recent history row, or the fallback; then the logs of
\* utils.job_listeners after the retries.
ListenerLookup(e) ==
    /\ execs[e].lpc = "pending"
    /\ LET j == execs[e].job_id
           record == latest_history(history, j)
           ts == IF get_job(jobstore, j) THEN trigger_str(jobstore[j].trigger)
                 ELSE IF record.job_id # None THEN record.trigger
                 ELSE "date[one-time]"
       IN execs' = [execs EXCEPT ![e] = [@ EXCEPT !.lpc = "looked", !.ltrigger = ts,
                                                   !.llogs = listener_logs[j]]]
    /\ UNCHANGED <<jobstore, sched_running, addc, nextExec, history, stored_logs,
                   listener_logs, nonJobVars>>

\* The keywords of the listeners' call of JobService._save_job_history.
listener_save_kwargs(outcome) ==
    {"session", "job", "status", "logs", "trigger_type"}
        \cup (IF outcome = "failed" THEN {"error_message"} ELSE {})

\* Lines 240-299 and 434-494: the trigger type from the trigger string, from
\* the most recent history row, or once; then the terminal row is saved and
\* committed, or the exception of the save is logged and rolled back.
ListenerSave(e) ==
    /\ execs[e].lpc = "looked"
    /\ LET j == execs[e].job_id
           t1 == detect(execs[e].ltrigger)
           t2 == IF t1 # None THEN t1 ELSE latest_history(history, j).trigger_type
           trigger_type == IF t2 # None THEN t2 ELSE "once"
           saved == binds(JobService_save_job_history_params,
                          listener_save_kwargs(execs[e].outcome))
       IN /\ execs' = [execs EXCEPT ![e] = [@ EXCEPT !.lpc = "saved",
                                                      !.ltype = trigger_type]]
          /\ history' = IF saved
                          THEN Append(history,
                                   HistoryRow(j, execs[e].outcome, execs[e].ltrigger,
                                              trigger_type, e,
                                              execs[e].outcome = "failed", execs[e].llogs))
                          ELSE history
          /\ listener_logs' = IF saved /\ execs[e].llogs
                                THEN [listener_logs EXCEPT ![j] = FALSE]
                                ELSE listener_logs
    /\ UNCHANGED <<jobstore, sched_running, addc, nextExec, stored_logs, nonJobVars>>

\* Lines 301-335 and 496-530: a job of trigger type once is removed when the
\* scheduler or the raw table still has it.
ListenerRemove(e) ==
    /\ execs[e].lpc = "saved"
    /\ LET j == execs[e].job_id IN
       jobstore' = IF execs[e].ltype = "once"
                      /\ (get_job(jobstore, j) \/ j \in list_all_jobs_from_store(jobstore))
                     THEN remove_job(jobstore, j)
                     ELSE jobstore
    /\ execs' = [execs EXCEPT ![e].lpc = "done"]
    /\ UNCHANGED <<sched_running, addc, nextExec, history, stored_logs, listener_logs,
                   nonJobVars>>

\* shutdown_event: shutdown_scheduler.
ShutdownScheduler ==
    /\ sched_running
    /\ sched_running' = FALSE
    /\ UNCHANGED <<jobstore, addc, execs, nextExec, history, stored_logs, listener_logs,
                   nonJobVars>>

(***************************************************************************)
(* JOB CREATION                                                            *)
(***************************************************************************)

\* The function names a request may give: two functions of
\* jobs/example_jobs.py by module path, a bare name, a module that does not
\* exist and a name the module does not define.
Functions ==
    {"jobs.example_jobs:cleanup_old_data", "jobs.example_jobs:health_check",
     "cleanup_old_data", "jobs.missing:cleanup", "jobs.example_jobs:missing"}

\* services/job_service.py: _job_functions, which nothing registers into.
job_functions == {}

\* What importlib.import_module and getattr find.
importable_functions ==
    {"jobs.example_jobs:cleanup_old_data", "jobs.example_jobs:health_check"}

\* A resolution that finds every name.
resolves_any(name) == TRUE

\* get_job_function: the registry first, then the import of module:name;
\* FALSE stands for AppException 400.
resolves(name) == name \in job_functions \/ name \in importable_functions

\* The parameters of core.jobs.add_scheduled_job, add_interval_job and
\* add_one_time_job.
add_job_params(trigger_type) ==
    CASE trigger_type = "cron" ->
           {"func_ref", "job_id", "trigger", "args", "kwargs", "replace_existing"}
      [] trigger_type = "interval" ->
           {"func_ref", "job_id", "weeks", "days", "hours", "minutes", "seconds",
            "start_date", "end_date", "args", "kwargs", "replace_existing"}
      [] OTHER ->
           {"func_ref", "job_id", "run_date", "args", "kwargs", "replace_existing"}

\* The keywords create_job calls them with.
create_job_kwargs(trigger_type) ==
    CASE trigger_type = "cron" ->
           {"func", "job_id", "trigger", "args", "kwargs", "replace_existing"}
      [] trigger_type = "interval" ->
           {"func", "job_id", "weeks", "days", "hours", "minutes", "seconds",
            "start_date", "end_date", "args", "kwargs", "replace_existing"}
      [] OTHER ->
           {"func", "job_id", "run_date", "args", "kwargs", "replace_existing"}

\* The keywords of create_job's call of JobService._save_job_history.
create_save_kwargs == {"session", "job", "status", "user_id", "trigger_type"}

IdleCreate ==
    [pc |-> "idle", job_id |-> None, function |-> None, trigger_type |-> None,
     replace_existing |-> FALSE, existed |-> FALSE, status |-> 0, detail |-> None,
     store_unchanged |-> TRUE, created_row |-> FALSE]

CreateInit == crt = IdleCreate

\* JobService.create_job, from the router's call to the response: the
\* function is resolved (400), a cron job needs its expression (400), the
\* add_* function is called (any exception: 500), the job is read back (500
\* when it is not there), the created row is saved and the job answered with
\* 201.
CreateJob(j, fn, trigger_type, cron_expression, replace_existing) ==
    /\ crt.pc = "idle"
    /\ LET request == [IdleCreate EXCEPT !.pc = "responded", !.job_id = j,
                                         !.function = fn,
                                         !.trigger_type = trigger_type,
                                         !.replace_existing = replace_existing,
                                         !.existed = get_job(jobstore, j)]
           refused(status, detail) ==
               /\ crt' = [request EXCEPT !.status = status, !.detail = detail]
               /\ UNCHANGED <<jobstore, history>>
       IN IF ~resolves(fn) THEN refused(400, "Job function not found")
          ELSE IF trigger_type = "cron" /\ cron_expression = None
            THEN refused(400, "Invalid job schedule")
          ELSE IF ~binds(add_job_params(trigger_type), create_job_kwargs(trigger_type))
            THEN refused(500, "Failed to create job")
          ELSE IF ~replace_existing /\ get_job(jobstore, j)
            THEN refused(500, "Failed to create job")
          ELSE IF ~binds(JobService_save_job_history_params, create_save_kwargs)
            THEN /\ jobstore' = [jobstore EXCEPT ![j] = [row |-> TRUE,
                                                         trigger |-> trigger_type]]
                 /\ crt' = [request EXCEPT !.status = 500,
                                           !.detail = "Failed to create job",
                                           !.store_unchanged = (jobstore' = jobstore)]
                 /\ UNCHANGED history
          ELSE /\ jobstore' = [jobstore EXCEPT ![j] = [row |-> TRUE,
                                                       trigger |-> trigger_type]]
               /\ history' = Append(history,
                                 HistoryRow(j, "created", trigger_str(trigger_type),
                                            trigger_type, 0, FALSE, FALSE))
               /\ crt' = [request EXCEPT !.status = 201,
                                         !.store_unchanged = (jobstore' = jobstore),
                                         !.created_row = TRUE]
    /\ UNCHANGED nonCreateVars

\* The response has been sent; the next request may come.
CreateReturn ==
    /\ crt.pc = "responded"
    /\ crt' = IdleCreate
    /\ UNCHANGED <<jobstore, history, nonCreateVars>>

CreateNext ==
    \/ \E j \in JobIds, fn \in Functions, t \in TriggerTypes,
          cron_expression \in {None, "* * * * *"}, replace_existing \in BOOLEAN :
            CreateJob(j, fn, t, cron_expression, replace_existing)
    \/ CreateReturn
    \/ \E j \in JobIds, t \in TriggerTypes : AddJob(j, t)
    \/ VerifyRead
    \/ VerifyRaw
    \/ AddReturn

JobsNext ==
    \/ \E j \in JobIds, t \in TriggerTypes : AddJob(j, t)
    \/ VerifyRead
    \/ VerifyRaw
    \/ AddReturn
    \/ \E j \in JobIds : RunJob(j)
    \/ \E j \in JobIds : MisfireJob(j)
    \/ \E e \in 1..MaxExecs : StartJob(e)
    \/ \E e \in 1..MaxExecs : FinishJob(e)
    \/ \E e \in 1..MaxExecs : MarkRunning(e)
    \/ \E e \in 1..MaxExecs : ListenerLookup(e)
    \/ \E e \in 1..MaxExecs : ListenerSave(e)
    \/ \E e \in 1..MaxExecs : ListenerRemove(e)
    \/ ShutdownScheduler

(***************************************************************************)
(* JWKS CACHE                                                              *)
(***************************************************************************)

Kids == {"K1", "K2"}
Verifiers == {"v1", "v2"}

\* What response.json() of a GET of the JWKS URL can return: a key set, or
\* JSON of another shape (not an object, or keys that is not a list of
\* objects).
NoDocument == [shape |-> "none", keys |-> {}]
Jwks(ks) == [shape |-> "jwks", keys |-> ks]
BadShape == [shape |-> "bad_shape", keys |-> {}]

\* The module globals before the first fetch: _jwks_cache is None,
\* _cached_kids is empty and _cache_expires_at is None. loaded says that
\* _jwks_cache holds a document (doc), fresh that _cache_expires_at is set
\* and still ahead.
EmptyCache == [loaded |-> FALSE, doc |-> NoDocument, kids |-> {}, fresh |-> FALSE]

\* _is_cache_valid: a cache is there and now is before _cache_expires_at.
is_cache_valid(c) == c.loaded /\ c.fresh

\* verify_token_string lines 148-150.
force_refresh_of(c, kid) == ~is_cache_valid(c) \/ (c.loaded /\ kid \notin c.kids)

\* A fetch that leaves the module globals as they are.
keep_cache(c, data) == c

\* get_jwks lines 72-74: _jwks_cache is assigned (line 72), then
\* _cached_kids is computed from the keys (line 73), which raises on a
\* document of another shape, then _cache_expires_at is set (line 74).
update_cache(c, data) ==
    IF data.shape = "bad_shape"
      THEN [c EXCEPT !.loaded = TRUE, !.doc = data]
      ELSE [loaded |-> TRUE, doc |-> data, kids |-> data.keys, fresh |-> TRUE]

\* get_public_key_from_jwks: an Ed25519 key with this kid is in the key set;
\* on a document of another shape the lookup raises.
get_public_key_from_jwks(jwks, kid) == jwks.shape = "jwks" /\ kid \in jwks.keys

\* verify_token_string lines 157-203 once the key set is there: the key is
\* looked up and the signature, issuer and audience are verified with it.
decide(jwks, kid, good) ==
    IF get_public_key_from_jwks(jwks, kid) /\ good THEN "accepted" ELSE "rejected"

\* A verification: the kid and whether the token verifies under its key, the
\* key set served to it, and what is remembered about its course: whether
\* the kid was absent from the cache when it began (absent), whether the
\* cache was valid and held the kid then (hit), the refreshes it made, and
\* whether the cache held the kid when it returned (in_cache).
IdleVerifier ==
    [pc |-> "idle", kid |-> None, good |-> FALSE, response |-> NoDocument,
     result |-> None,
     absent |-> FALSE, hit |-> FALSE, refreshes |-> 0, in_cache |-> FALSE]

JwksInit ==
    /\ jwks_cache = EmptyCache
    /\ idp_keys = {"K1"}
    /\ vt = [v \in Verifiers |-> IdleVerifier]

\* A verification that asks for the key set before it looks at the kid.
VerifyBeginFetchFirst(v) ==
    /\ vt[v].pc = "idle"
    /\ \E kid \in Kids \cup {None}, good \in BOOLEAN :
         vt' = [vt EXCEPT ![v] = [IdleVerifier EXCEPT !.kid = kid, !.good = good,
                                                      !.pc = "fetching"]]
    /\ UNCHANGED <<jwks_cache, idp_keys, nonJwksVars>>

\* verify_token_string up to the first await: the kid of the header, the
\* decision to refresh, and get_jwks, which returns the cache at once when
\* it is valid and no refresh is forced, and otherwise sends the GET.
VerifyBegin(v) ==
    /\ vt[v].pc = "idle"
    /\ \E kid \in Kids \cup {None}, good \in BOOLEAN :
         LET me == [IdleVerifier EXCEPT !.kid = kid, !.good = good,
                        !.absent = kid \notin jwks_cache.kids,
                        !.hit = is_cache_valid(jwks_cache) /\ kid \in jwks_cache.kids]
         IN IF kid = None
              THEN vt' = [vt EXCEPT ![v] = [me EXCEPT !.pc = "returned",
                                                      !.result = "missing_kid"]]
            ELSE IF ~force_refresh_of(jwks_cache, kid) /\ is_cache_valid(jwks_cache)
              THEN vt' = [vt EXCEPT ![v] =
                            [me EXCEPT !.pc = "returned",
                                       !.result = decide(jwks_cache.doc, kid, good),
                                       !.in_cache = kid \in jwks_cache.kids]]
            ELSE vt' = [vt EXCEPT ![v] = [me EXCEPT !.pc = "fetching"]]
    /\ UNCHANGED <<jwks_cache, idp_keys, nonJwksVars>>

\* The GET is answered with status 200 and a JSON body: the key set the
\* identity provider publishes at that moment, or JSON that is no key set.
FetchServe(v) ==
    /\ vt[v].pc = "fetching"
    /\ \E body \in {Jwks(idp_keys), BadShape} :
         vt' = [vt EXCEPT ![v] = [@ EXCEPT !.pc = "responded", !.response = body]]
    /\ UNCHANGED <<jwks_cache, idp_keys, nonJwksVars>>

\* get_jwks lines 60-87 after the await, and the rest of verify_token_string:
\* the cache is replaced by the response and the token is verified against
\* the key set returned; an exception on the way is raised as JWKSError.
FetchReturn(v) ==
    /\ vt[v].pc = "responded"
    /\ LET c == update_cache(jwks_cache, vt[v].response) IN
       /\ jwks_cache' = c
       /\ vt' = [vt EXCEPT ![v] =
                   [@ EXCEPT !.pc = "returned", !.refreshes = @ + 1,
                             !.result = IF vt[v].response.shape = "jwks"
                                          THEN decide(vt[v].response, vt[v].kid,
                                                      vt[v].good)
                                          ELSE "jwks_error",
                             !.in_cache = c.loaded /\ vt[v].kid \in c.kids]]
    /\ UNCHANGED <<idp_keys, nonJwksVars>>

\* get_jwks lines 60-70 and 77-84: the GET fails, the status is an error or
\* the body is not JSON, and JWKSError is raised; the cache stays as it is.
FetchFail(v) ==
    /\ vt[v].pc \in {"fetching", "responded"}
    /\ vt' = [vt EXCEPT ![v] = [@ EXCEPT !.pc = "returned", !.result = "jwks_error",
                                         !.in_cache = jwks_cache.loaded
                                                        /\ vt[v].kid \in jwks_cache.kids]]
    /\ UNCHANGED <<jwks_cache, idp_keys, nonJwksVars>>

\* The caller has the result; the next token is verified.
VerifyEnd(v) ==
    /\ vt[v].pc = "returned"
    /\ vt' = [vt EXCEPT ![v] = IdleVerifier]
    /\ UNCHANGED <<jwks_cache, idp_keys, nonJwksVars>>

\* The identity provider rotates its keys.
RotateKeys ==
    /\ \E ks \in SUBSET Kids : ks # idp_keys /\ idp_keys' = ks
    /\ UNCHANGED <<jwks_cache, vt, nonJwksVars>>

\* JWKS_CACHE_TTL_SECONDS pass: now is no longer before _cache_expires_at.
ExpireCache ==
    /\ is_cache_valid(jwks_cache)
    /\ jwks_cache' = [jwks_cache EXCEPT !.fresh = FALSE]
    /\ UNCHANGED <<idp_keys, vt, nonJwksVars>>

JwksNext ==
    \/ \E v \in Verifiers : VerifyBegin(v)
    \/ \E v \in Verifiers : FetchServe(v)
    \/ \E v \in Verifiers : FetchReturn(v)
    \/ \E v \in Verifiers : FetchFail(v)
    \/ \E v \in Verifiers : VerifyEnd(v)
    \/ RotateKeys
    \/ ExpireCache

(***************************************************************************)
(* LOG CAPTURE                                                             *)
(***************************************************************************)

\* The executions that capture their output, and the stream sys.stdout and
\* sys.stderr are before any capture.
CaptureIds == 1..MaxCaptures
Original == 0

\* A LogCapture: the three buffers hold the executions whose output reached
\* them; old_stdout and old_stderr are the _old_targets of redirect_stdout and
\* redirect_stderr.
IdleCapture ==
    [pc |-> "idle", job_id |-> None, old_stdout |-> Original, old_stderr |-> Original,
     stdout_buffer |-> {}, stderr_buffer |-> {}, log_buffer |-> {}]

\* LogCapture.get_logs: the three buffers joined.
get_logs(c) == c.stdout_buffer \cup c.stderr_buffer \cup c.log_buffer

LogsInit ==
    /\ sys_stdout = Original
    /\ sys_stderr = Original
    /\ root_handlers = {}
    /\ cap = [c \in CaptureIds |-> IdleCapture]

\* execute_job_with_logging line 289, LogCapture.__enter__: the streams are
\* redirected to the buffers, the current ones remembered, and a handler on
\* log_buffer is added to the root logger.
EnterCapture(c, j) ==
    /\ cap[c].pc = "idle"
    /\ cap' = [cap EXCEPT ![c] = [@ EXCEPT !.pc = "running", !.job_id = j,
                                            !.old_stdout = sys_stdout,
                                            !.old_stderr = sys_stderr]]
    /\ sys_stdout' = c
    /\ sys_stderr' = c
    /\ root_handlers' = root_handlers \cup {c}
    /\ UNCHANGED <<stored_logs, nonLogVars>>

\* The function of execution c writes to sys.stdout, to sys.stderr or to a
\* logger: the text goes where the stream points now, a log record to every
\* handler of the root logger.
Emit(c, stream) ==
    /\ cap[c].pc = "running"
    /\ CASE stream = "stdout" ->
              /\ sys_stdout # Original
              /\ cap' = [cap EXCEPT ![sys_stdout].stdout_buffer = @ \cup {c}]
         [] stream = "stderr" ->
              /\ sys_stderr # Original
              /\ cap' = [cap EXCEPT ![sys_stderr].stderr_buffer = @ \cup {c}]
         [] OTHER ->
              cap' = [h \in CaptureIds |->
                        IF h \in root_handlers
                          THEN [cap[h] EXCEPT !.log_buffer = @ \cup {c}]
                          ELSE cap[h]]
    /\ UNCHANGED <<sys_stdout, sys_stderr, root_handlers, stored_logs, nonLogVars>>

\* execute_job_with_logging lines 300-303 and LogCapture.__exit__: the logs
\* are stored under the job id, each stream is set back to what it was when
\* this capture was entered, and the handler is removed.
ExitCapture(c) ==
    /\ cap[c].pc = "running"
    /\ stored_logs' = [stored_logs EXCEPT ![cap[c].job_id] =
                          [there |-> TRUE, by |-> c, sources |-> get_logs(cap[c])]]
    /\ sys_stdout' = cap[c].old_stdout
    /\ sys_stderr' = cap[c].old_stderr
    /\ root_handlers' = root_handlers \ {c}
    /\ cap' = [cap EXCEPT ![c].pc = "exited"]
    /\ UNCHANGED nonLogVars

LogsNext ==
    \/ \E c \in CaptureIds, j \in JobIds : EnterCapture(c, j)
    \/ \E c \in CaptureIds, stream \in {"stdout", "stderr", "log"} : Emit(c, stream)
    \/ \E c \in CaptureIds : ExitCapture(c)

AuthNext ==
    \/ Receive
    \/ AuthEnter
    \/ CheckApiKey
    \/ CheckJwt
    \/ AuthDecide
    \/ RateLimit
    \/ RequestID
    \/ Route
    \/ Respond

(***************************************************************************)
(* APPLICATION SHUTDOWN                                                    *)
(***************************************************************************)

\* No text has been given to the title function.
IdleTitle == [pc |-> "given", first_message |-> <<>>, title |-> <<>>, again |-> <<>>]

TitleInit == ttl = IdleTitle

\* No DELETE /jobs/{id} request has arrived.
IdleDelete ==
    [pc |-> "idle", job_id |-> None, trigger |-> None, status |-> 0, removed |-> FALSE]

DeleteInit == dlt = IdleDelete

\* The requests that pass through RequestIDMiddleware, named by the uuid4
\* each is given.
DispatchIds == {"id1", "id2", "id3"}

\* A factory is the chain of record_factory closures around the factory of
\* the logging module, outermost first, each named by its request id.
OriginalFactory == <<>>

\* The request_id a record made by the factory carries: each closure sets
\* its id after calling the one it wraps, so the outermost one wins.
request_id_tag(factory) == IF factory = OriginalFactory THEN None ELSE Head(factory)

RequestIdInit ==
    mw = [factory |-> OriginalFactory,
          rq |-> [r \in DispatchIds |-> [pc |-> "idle", old_factory |-> OriginalFactory]],
          records |-> {}]

AppInit ==
    app = [pc |-> "serving", http_client |-> "open", db_pool |-> "open"]

\* The job store is a table of the database: the scheduler starts with the
\* jobs earlier runs of the server left in it.
PersistedStores ==
    [JobIds -> {NoJob} \cup {[row |-> TRUE, trigger |-> t] : t \in TriggerTypes}]

ShutdownInit ==
    /\ AuthInit /\ ChatInit /\ StreamInit /\ JwksInit /\ LogsInit /\ CreateInit
    /\ AppInit /\ TitleInit /\ DeleteInit /\ RequestIdInit
    /\ jobstore \in PersistedStores
    /\ sched_running = TRUE
    /\ addc = IdleAdd
    /\ execs = [e \in 1..MaxExecs |-> NoExec]
    /\ nextExec = 0
    /\ history = <<>>
    /\ stored_logs = [j \in JobIds |-> NoLogs]
    /\ listener_logs = [j \in JobIds |-> FALSE]

\* The wrapper coroutine of the execution has been handed to the event loop
\* and has not returned or raised.
ExecutionInFlight(e) == execs[e].pc \in {"submitted", "running"}

\* shutdown_event line 108 with shutdown_scheduler: sched.shutdown(wait=True)
\* is a synchronous call made on the event loop that runs the job
\* coroutines, so no coroutine advances during it; the executions in flight
\* are as they were when it returns.
ShutdownSchedulerEvent ==
    /\ app.pc = "serving"
    /\ app' = [app EXCEPT !.pc = "scheduler_down"]
    /\ sched_running' = FALSE
    /\ UNCHANGED <<jobstore, addc, execs, nextExec, history, stored_logs, listener_logs,
                   nonAppVars>>

\* The executor cancels the futures it still holds: CancelledError is raised
\* in the wrapper at its await, passes its except Exception, and its finally
\* stores the captured logs; no job event is dispatched.
CancelJob(e) ==
    /\ app.pc # "serving"
    /\ ExecutionInFlight(e)
    /\ execs' = [execs EXCEPT ![e].pc = "cancelled"]
    /\ stored_logs' = IF execs[e].pc = "running"
                        THEN [stored_logs EXCEPT ![execs[e].job_id].there = TRUE]
                        ELSE stored_logs
    /\ UNCHANGED <<jobstore, sched_running, addc, nextExec, history, listener_logs,
                   nonJobVars>>

\* shutdown_event line 109: close_http_client.
CloseHttpClient ==
    /\ app.pc = "scheduler_down"
    /\ app' = [app EXCEPT !.pc = "http_closed", !.http_client = "closed"]
    /\ UNCHANGED <<jobVars, nonAppVars>>

\* shutdown_event line 110: close_db disposes of the engine.
CloseDb ==
    /\ app.pc = "http_closed"
    /\ app' = [app EXCEPT !.pc = "db_closed", !.db_pool = "closed"]
    /\ UNCHANGED <<jobVars, nonAppVars>>

ShutdownNext ==
    \/ \E j \in JobIds : RunJob(j)
    \/ \E e \in 1..MaxExecs : StartJob(e)
    \/ \E e \in 1..MaxExecs : FinishJob(e)
    \/ \E e \in 1..MaxExecs : MarkRunning(e)
    \/ \E e \in 1..MaxExecs : ListenerLookup(e)
    \/ \E e \in 1..MaxExecs : ListenerSave(e)
    \/ \E e \in 1..MaxExecs : ListenerRemove(e)
    \/ \E e \in 1..MaxExecs : CancelJob(e)
    \/ ShutdownSchedulerEvent
    \/ CloseHttpClient
    \/ CloseDb

(***************************************************************************)
(* TITLE DERIVATION                                                        *)
(***************************************************************************)

\* The message texts given to the function: a run of whitespace, a body of
\* letters with at most one blank inside, a run of whitespace. The bodies
\* reach beyond the 50 characters at which the function cuts.
Padding(k, ch) == [i \in 1..k |-> ch]
Body(n, gap) == [i \in 1..n |-> IF i = gap THEN " " ELSE "a"]
GapPositions == {0, 47, 48, 50}
FirstMessages ==
    {Padding(lead, ch) \o Body(n, gap) \o Padding(trail, ch) :
        lead \in 0..MaxPad, trail \in 0..MaxPad, ch \in Whitespace,
        n \in 0..MaxBody, gap \in GapPositions}

TitleSpecInit ==
    /\ AuthInit /\ ChatInit /\ StreamInit /\ JobsInit /\ JwksInit /\ LogsInit
    /\ CreateInit /\ AppInit /\ DeleteInit /\ RequestIdInit
    /\ ttl \in {[IdleTitle EXCEPT !.first_message = text] : text \in FirstMessages}

\* auto_update_conversation_title lines 202-204: the title of the text.
DeriveTitle ==
    /\ ttl.pc = "given"
    /\ ttl' = [ttl EXCEPT !.pc = "derived",
                          !.title = generate_conversation_title(ttl.first_message)]
    /\ UNCHANGED nonTitleVars

\* The function applied to a title it produced.
DeriveAgain ==
    /\ ttl.pc = "derived"
    /\ ttl' = [ttl EXCEPT !.pc = "rederived",
                          !.again = generate_conversation_title(ttl.title)]
    /\ UNCHANGED nonTitleVars

TitleNext ==
    \/ DeriveTitle
    \/ DeriveAgain

(***************************************************************************)
(* JOB DELETION                                                            *)
(***************************************************************************)

\* JobService.delete_job against the scheduler, which submits the run of a
\* due job and deletes the row of a job with a date trigger meanwhile.
DeleteSpecInit ==
    /\ AuthInit /\ ChatInit /\ StreamInit /\ JwksInit /\ LogsInit /\ CreateInit
    /\ AppInit /\ TitleInit /\ DeleteInit /\ RequestIdInit
    /\ jobstore \in PersistedStores
    /\ sched_running = TRUE
    /\ addc = IdleAdd
    /\ execs = [e \in 1..MaxExecs |-> NoExec]
    /\ nextExec = 0
    /\ history = <<>>
    /\ stored_logs = [j \in JobIds |-> NoLogs]
    /\ listener_logs = [j \in JobIds |-> FALSE]

\* The keywords of delete_job's call of _save_job_history.
delete_save_kwargs == {"session", "job", "status", "user_id"}

\* delete_job lines 330-335: get_job, 404 for a job the scheduler does not
\* have.
DeleteLookup(j) ==
    /\ dlt.pc = "idle"
    /\ dlt' = IF get_job(jobstore, j)
                THEN [dlt EXCEPT !.pc = "found", !.job_id = j,
                                 !.trigger = jobstore[j].trigger]
                ELSE [dlt EXCEPT !.pc = "responded", !.job_id = j, !.status = 404]
    /\ UNCHANGED <<jobVars, nonDeleteVars>>

\* delete_job lines 337-344: the removed row is added to the session and the
\* session is committed; a commit that raises leads to the 500 of lines
\* 350-355.
DeleteSaveHistory ==
    /\ dlt.pc = "found"
    /\ \E commit_raises \in BOOLEAN :
         IF commit_raises
           THEN /\ dlt' = [dlt EXCEPT !.pc = "responded", !.status = 500]
                /\ UNCHANGED history
           ELSE /\ dlt' = [dlt EXCEPT !.pc = "committed"]
                /\ history' =
                     IF binds(JobService_save_job_history_params, delete_save_kwargs)
                       THEN Append(history,
                                HistoryRow(dlt.job_id, "removed", trigger_str(dlt.trigger),
                                           detect(trigger_str(dlt.trigger)), 0, FALSE, FALSE))
                       ELSE history
    /\ UNCHANGED <<jobstore, sched_running, addc, execs, nextExec, stored_logs,
                   listener_logs, nonDeleteVars>>

\* delete_job lines 346-355: remove_job; the scheduler raises JobLookupError
\* for a job it no longer has, which becomes the 500.
DeleteRemove ==
    /\ dlt.pc = "committed"
    /\ IF get_job(jobstore, dlt.job_id)
         THEN /\ jobstore' = remove_job(jobstore, dlt.job_id)
              /\ dlt' = [dlt EXCEPT !.pc = "responded", !.status = 200, !.removed = TRUE]
         ELSE /\ dlt' = [dlt EXCEPT !.pc = "responded", !.status = 500]
              /\ UNCHANGED jobstore
    /\ UNCHANGED <<sched_running, addc, execs, nextExec, history, stored_logs,
                   listener_logs, nonDeleteVars>>

DeleteNext ==
    \/ \E j \in JobIds : DeleteLookup(j)
    \/ DeleteSaveHistory
    \/ DeleteRemove
    \/ \E j \in JobIds : RunJob(j)

Init ==
    /\ AuthInit /\ ChatInit /\ StreamInit /\ JobsInit /\ JwksInit /\ LogsInit
    /\ CreateInit /\ AppInit /\ TitleInit /\ DeleteInit /\ RequestIdInit

(***************************************************************************)
(* REQUEST-ID MIDDLEWARE                                                   *)
(***************************************************************************)

\* RequestIDMiddleware.dispatch lines 30-41: the request id, the factory in
\* place saved as old_factory, and record_factory installed, which calls
\* old_factory and then sets its own request id on the record.
EnterDispatch(r) ==
    /\ mw.rq[r].pc = "idle"
    /\ mw' = [mw EXCEPT !.rq[r] = [pc |-> "inside", old_factory |-> mw.factory],
                        !.factory = <<r>> \o mw.factory]
    /\ UNCHANGED nonRequestIdVars

\* Lines 43-50: call_next returned or raised; the finally installs the
\* factory this request saved.
LeaveDispatch(r) ==
    /\ mw.rq[r].pc = "inside"
    /\ mw' = [mw EXCEPT !.rq[r].pc = "completed", !.factory = mw.rq[r].old_factory]
    /\ UNCHANGED nonRequestIdVars

\* Any code of the process creates a log record: the factory in place tags
\* it with the request id of its outermost record_factory.
LogRecord ==
    /\ mw' = [mw EXCEPT !.records = @ \cup
                {[request_id |-> request_id_tag(mw.factory),
                  completed |-> /\ mw.factory # OriginalFactory
                                /\ mw.rq[Head(mw.factory)].pc = "completed"]}]
    /\ UNCHANGED nonRequestIdVars

RequestIdNext ==
    \/ \E r \in DispatchIds : EnterDispatch(r)
    \/ \E r \in DispatchIds : LeaveDispatch(r)
    \/ LogRecord

SpecAuth == Init /\ [][AuthNext]_vars

SpecChat == Init /\ [][ChatNext]_vars

SpecDedupe == Init /\ [][DedupeNext]_vars

SpecConv == Init /\ [][ConvNext]_vars

\* Two chat requests of the owner on the conversation, each scheduled
\* fairly: the database answers a statement that is not waiting for the row
\* lock, the upstream stream ends, the response completes.
LockProcs == {"p1", "p2"}

LocksNext ==
    \/ \E p \in LockProcs : Submit(p)
    \/ \E p \in LockProcs : CheckUser(p)
    \/ \E p \in LockProcs : AddUser(p)
    \/ \E p \in LockProcs : StreamEnd(p)
    \/ \E p \in LockProcs : CheckAssistant(p)
    \/ \E p \in LockProcs : AddAssistant(p)
    \/ \E p \in LockProcs : TitleRead(p)
    \/ \E p \in LockProcs : TitleWrite(p)
    \/ \E p \in LockProcs : Finish(p)

LocksFairness ==
    \A p \in LockProcs :
        /\ WF_vars(CheckUser(p))
        /\ WF_vars(AddUser(p))
        /\ WF_vars(StreamEnd(p))
        /\ WF_vars(CheckAssistant(p))
        /\ WF_vars(AddAssistant(p))
        /\ WF_vars(TitleRead(p))
        /\ WF_vars(TitleWrite(p))
        /\ WF_vars(Finish(p))

SpecLocks == Init /\ [][LocksNext]_vars /\ LocksFairness

SpecStream == Init /\ [][StreamNext]_vars

SpecJobs == Init /\ [][JobsNext]_vars

SpecJwks == Init /\ [][JwksNext]_vars

SpecLogs == Init /\ [][LogsNext]_vars

SpecCreate == Init /\ [][CreateNext]_vars

SpecShutdown == ShutdownInit /\ [][ShutdownNext]_vars

SpecTitle == TitleSpecInit /\ [][TitleNext]_vars

SpecDelete == DeleteSpecInit /\ [][DeleteNext]_vars

SpecRequestId == Init /\ [][RequestIdNext]_vars

\* The request carries neither an Authorization: Bearer header nor an
\* X-API-Key header.
NoCredentials ==
    /\ req.api_key = None
    /\ req.authorization.scheme # "Bearer"

Answered == apc = "done" /\ req # NoRequest /\ resp # NoResponse

C2_HandlerOnlyAfterAuth ==
    (handled # NotHandled /\ handled.path \notin PUBLIC_ROUTES)
        => /\ (rstate.api_key_data.set \/ rstate.token_data.set)
           /\ rstate.api_key_data.set =>
                /\ req.api_key \in ApiKeys
                /\ \E a \in ProviderAnswers(req.api_key) :
                     a.status = 200 /\ a.valid /\ a.userId = rstate.api_key_data.user_id
           /\ rstate.token_data.set =>
                /\ req.authorization.scheme = "Bearer"
                /\ req.authorization.token \in Tokens
                /\ TokenInfo(req.authorization.token).good
                /\ TokenInfo(req.authorization.token).kid # None
           /\ handled.user_id \notin {Unset, None, ""}
           /\ (rstate.api_key_data.set /\ rstate.token_data.set)
                => handled.user_id = rstate.api_key_data.user_id

C2_Witness ==
    /\ handled # NotHandled /\ handled.path = "/chat"
    /\ rstate.api_key_data.set /\ rstate.token_data.set
    /\ handled.user_id = "u1"

(***************************************************************************)
(* Ownership of a conversation (SpecConv).                                 *)
(***************************************************************************)

NonOwner(u) == u \notin {None, conv.user_id}

\* C3 as stated: every conversation operation, and POST /chat with a
\* conversation_id, of a principal that is not the owner fails as NotFound
\* and returns no row.
C3_NonOwnerFailsNotFound ==
    /\ NonOwner(lastOp.user) => (lastOp.status = 404 /\ lastOp.rows = {})
    /\ \A p \in Procs :
         NonOwner(cp[p].user) => (cp[p].status # 200 /\ cp[p].user_message_id = 0)

\* The part of C3 that holds: every conversation operation of a principal
\* that is not the owner fails as NotFound, and neither it nor a POST /chat
\* of such a principal returns, creates, modifies or deletes a row.
C3_NonOwnerTouchesNothing ==
    [][ /\ (lastOp' # lastOp /\ NonOwner(lastOp'.user))
            => /\ lastOp'.status = 404 /\ lastOp'.rows = {}
               /\ UNCHANGED <<conv, msgs, nextMsgId>>
        /\ \A p \in Procs :
             (cp'[p] # cp[p] /\ NonOwner(cp'[p].user))
                => /\ cp'[p].user_message_id = 0
                   /\ cp'[p].pc \notin {"add_asst", "title", "title_write"}
                   /\ UNCHANGED <<conv, msgs, nextMsgId>> ]_vars

C3_Witness ==
    /\ conv.exists /\ msgs # <<>>
    /\ lastOp.op = "delete_message" /\ lastOp.user = "u2" /\ lastOp.status = 404
    /\ \E p \in Procs :
         cp[p].user = "u2" /\ cp[p].pc = "done" /\ cp[p].acontent = <<"X">>

(***************************************************************************)
(* Duplicate user messages (SpecDedupe).                                   *)
(***************************************************************************)

UserRows == SelectRole(msgs, "user")

\* The row that was the conversation's last user message when r was inserted.
Previous(r) == CHOOSE q \in {msgs[i] : i \in 1..Len(msgs)} : q.id = r.prevId

\* Two rows of the same content that follow each other among the user rows.
Repeats(r) == r.role = "user" /\ r.prevId # 0 /\ Previous(r).content = r.content

\* C7 as stated: of two chat requests with the same content that arrive less
\* than five seconds apart, with no other user message stored between them,
\* at most one adds a user row.
C7_TwoSubmissionsOneRow ==
    \A i \in 1..Len(msgs) :
        Repeats(msgs[i]) => msgs[i].arrived - Previous(msgs[i]).arrived >= DedupeWindow

\* C7 amended: of two chat requests with the same content, one after the
\* other or overlapping, the second adds no user row when it reads the
\* stored messages less than five seconds after the first one's row was
\* created and that row is still the conversation's last user message.
C7_SecondReadWithinWindowOneRow ==
    \A i \in 1..Len(msgs) :
        Repeats(msgs[i]) =>
            msgs[i].checkedAt - Previous(msgs[i]).created_at >= DedupeWindow

\* Two requests sent the same content: one was answered with the other's row
\* and a third, after the window, stored the content again.
C7_Witness ==
    /\ \E i \in 1..Len(msgs) : Repeats(msgs[i])
    /\ \E p \in Procs, i \in 1..Len(msgs) :
         /\ cp[p].pc = "done" /\ msgs[i].by # p
         /\ msgs[i].role = "user" /\ msgs[i].content = cp[p].content
         /\ cp[p].user_message_id = msgs[i].id

\* C8 as stated: no two user rows of a conversation with the same content
\* were created less than five seconds apart, whatever was stored between.
C8_OneRowPerContentPerWindow ==
    \A i, j \in 1..Len(msgs) :
        (i < j /\ msgs[i].role = "user" /\ msgs[j].role = "user"
            /\ msgs[i].content = msgs[j].content)
            => msgs[j].created_at - msgs[i].created_at >= DedupeWindow

\* C8 amended: a user row is created only when the conversation's last user
\* row at that moment has another content or is at least five seconds old;
\* a user message with another content stored in between lifts the bar.
C8_OneRowPerContentPerWindow_Adjacent ==
    \A i, j \in 1..Len(UserRows) :
        (j = i + 1 /\ UserRows[i].content = UserRows[j].content)
            => UserRows[j].created_at - UserRows[i].created_at >= DedupeWindow

\* The same content twice inside the window, another content in between.
C8_Witness ==
    /\ Len(UserRows) = 3
    /\ UserRows[1].content = UserRows[3].content
    /\ UserRows[2].content # UserRows[1].content
    /\ UserRows[3].created_at - UserRows[1].created_at < DedupeWindow

(***************************************************************************)
(* Duplicate assistant messages (SpecChat).                                *)
(***************************************************************************)

\* C9: in every reachable state a conversation holds at most one assistant
\* message for each pair of content and model, also when two streams of the
\* same reply finish at the same time.
C9_OneAssistantPerContentModel ==
    \A i, j \in 1..Len(msgs) :
        (msgs[i].role = "assistant" /\ msgs[j].role = "assistant"
            /\ msgs[i].content = msgs[j].content /\ msgs[i].model = msgs[j].model)
            => i = j

\* Two streams ended with the same reply of the same model while both
\* requests were in flight; one row holds it.
C9_Witness ==
    \E p, q \in Procs :
        /\ p # q
        /\ cp[p].acontent = <<"X">> /\ cp[q].acontent = <<"X">> /\ cp[p].model = cp[q].model
        /\ cp[p].pc = "finished" /\ cp[q].pc = "finished"
        /\ \E i \in 1..Len(msgs) :
             msgs[i].role = "assistant" /\ msgs[i].content = <<"X">>
                /\ msgs[i].model = cp[p].model

(***************************************************************************)
(* The end of a stream (SpecStream).                                       *)
(***************************************************************************)

Sent(kind) == \E i \in 1..Len(out) : out[i].kind = kind

SentError == \E i \in 1..Len(out) : out[i].kind = "content" /\ out[i].text = "Error"

\* C10: however the upstream ends, the client of a finished stream has
\* received a finish_reason=stop chunk or an error frame, and data: [DONE] is
\* the last frame.
C10_StreamAlwaysTerminated ==
    spc = "closed" =>
        /\ Sent("stop") \/ SentError
        /\ out # <<>> /\ out[Len(out)].kind = "DONE"

\* C25: auto-titling writes a title only over the default title: a title
\* that update_title has set is not changed by the title write of a chat
\* request.
C25_AutoTitleOnlyOverDefault ==
    [][\A p \in ConvProcs :
         (cp[p].pc = "title_write" /\ cp'[p].pc = "finished" /\ conv'.title # conv.title)
            => conv.title = DEFAULT_TITLE]_vars

C24_StopThenMessageIdsThenDone ==
    (spc = "closed" /\ sstate.done) =>
        /\ Len(out) >= 2
        /\ out[Len(out)].kind = "DONE"
        /\ IF Sent("message_ids")
             THEN /\ Len(out) >= 3
                  /\ out[Len(out) - 1].kind = "message_ids"
                  /\ out[Len(out) - 2].kind = "stop"
             ELSE out[Len(out) - 1].kind = "stop"

(***************************************************************************)
(* Job executions and their history rows (SpecJobs).                       *)
(***************************************************************************)

\* The history rows of execution e whose status is one of the given.
RowsOf(e, statuses) ==
    {i \in 1..Len(history) : history[i].exec = e /\ history[i].status \in statuses}

\* Execution e is over: its function ended, the listener of its event has
\* run to its end and its mark-running task is not outstanding.
Handled(e) == execs[e].lpc = "done" /\ execs[e].mark # "pending"

\* C4: every execution that is over has exactly one running row and exactly
\* one completed or failed row, the terminal row created strictly later.
C4_RunningThenTerminal ==
    \A e \in 1..MaxExecs :
        Handled(e) =>
            \E r, t \in 1..Len(history) :
                /\ RowsOf(e, {"running"}) = {r}
                /\ RowsOf(e, {"completed", "failed"}) = {t}
                /\ history[r].created_at < history[t].created_at

\* C5: a job with a date trigger whose execution is over has its terminal
\* history row, and with that row written the store no longer holds the job.
C5_OnceJobGoneAfterTerminalRow ==
    \A e \in 1..MaxExecs :
        (execs[e].trigger = "once" /\ Handled(e)) =>
            /\ RowsOf(e, {"completed", "failed"}) # {}
            /\ ~get_job(jobstore, execs[e].job_id)

\* C15: when the listener of an execution whose function ran has saved, the
\* logs of the execution were stored under its job id and the completed or
\* failed row of the execution carries them.
C15_TerminalRowCarriesLogs ==
    \A e \in 1..MaxExecs :
        (execs[e].lpc \in {"saved", "done"} /\ execs[e].mark # "none") =>
            /\ stored_logs[execs[e].job_id].there
            /\ \E t \in RowsOf(e, {"completed", "failed"}) : history[t].logs

\* C17: a fire missed by more than the grace time does not run the function
\* and leaves a history row of status misfired for the job.
C17_MisfireRecorded ==
    \A e \in 1..MaxExecs :
        execs[e].pc = "missed" =>
            /\ execs[e].outcome = None
            /\ \E i \in 1..Len(history) :
                  history[i].job_id = execs[e].job_id /\ history[i].status = "misfired"

\* C23: every history row of status failed has an error message.
C23_FailedRowHasErrorMessage ==
    \A i \in 1..Len(history) :
        history[i].status = "failed" => history[i].error_message

\* Some history row has status failed.
C23_SomeFailedRow == \E i \in 1..Len(history) : history[i].status = "failed"

(***************************************************************************)
(* Persistence verification of a new job (SpecJobs).                       *)
(***************************************************************************)

\* C6: an add_* call that returns has seen the job in the store: at one of
\* at most five reads of the scheduler, 200 ms after one another, or, after
\* five misses, as a row of the table. A call that saw neither fails.
C6_ReturnedJobWasObserved ==
    /\ addc.pc = "returned" =>
          /\ addc.present
          /\ \/ /\ ~addc.sawRow
                /\ addc.seenAt \in 1..JOB_PERSISTENCE_VERIFY_MAX_RETRIES
                /\ addc.elapsed = (addc.seenAt - 1) * JOB_PERSISTENCE_VERIFY_RETRY_DELAY_MS
             \/ /\ addc.sawRow
                /\ addc.seenAt = 0
                /\ addc.attempt = JOB_PERSISTENCE_VERIFY_MAX_RETRIES
                /\ addc.elapsed =
                     (JOB_PERSISTENCE_VERIFY_MAX_RETRIES - 1)
                        * JOB_PERSISTENCE_VERIFY_RETRY_DELAY_MS
    /\ (addc.pc = "raw" /\ ~get_job(jobstore, addc.job_id)) =>
          ~ENABLED (VerifyRaw /\ addc'.pc = "returned")

\* A call returned after a read that missed the job: the job was seen at a
\* later read of the scheduler.
C6_Witness ==
    /\ addc.pc = "returned"
    /\ addc.seenAt > 1
    /\ addc.present

(***************************************************************************)
(* An aborted stream (SpecStream).                                         *)
(***************************************************************************)

\* The stream was ended by an upstream error or by the client going away.
Aborted == spc = "aborted" \/ (spc = "closed" /\ SentError)

\* C11: when a stream with a conversation_id is aborted, by an upstream
\* error or by the client disconnecting, after assistant output has been
\* accumulated, all of the accumulated output has been handed to the save of
\* the assistant message.
C11_AbortedStreamSavesPartialOutput ==
    (Aborted /\ sreq.conversation_id /\ sstate.assistant_content # <<>>)
        => sstate.tried = sstate.assistant_content

(***************************************************************************)
(* The JWKS cache (SpecJwks).                                              *)
(***************************************************************************)

\* C12: a verification that accepted a token with kid K returned with K in
\* the cache; when K was absent from the cache as it began, it made exactly
\* one refresh; and a verification that begins while the cache is valid and
\* holds its kid makes no refresh.
C12_AcceptedKidIsCached ==
    \A v \in Verifiers :
        vt[v].pc = "returned" =>
            /\ vt[v].result = "accepted" =>
                  /\ vt[v].in_cache
                  /\ vt[v].absent => vt[v].refreshes = 1
            /\ vt[v].hit => vt[v].refreshes = 0

\* One verification missed its kid, refreshed once and accepted; another
\* with the same kid was then answered from the cache.
C12_Witness ==
    \E v, w \in Verifiers :
        /\ v # w
        /\ vt[v].pc = "returned" /\ vt[w].pc = "returned"
        /\ vt[v].kid = "K2" /\ vt[w].kid = "K2"
        /\ vt[v].result = "accepted" /\ vt[v].absent /\ vt[v].refreshes = 1
        /\ vt[w].result = "accepted" /\ vt[w].hit /\ vt[w].refreshes = 0

\* The verifications whose GET of the key set is under way.
InFlightFetches == {v \in Verifiers : vt[v].pc \in {"fetching", "responded"}}

\* C13: at most one fetch of the key set is in flight at any time, also when
\* several verifications miss the same kid at once.
C13_OneFetchInFlight == Cardinality(InFlightFetches) <= 1

(***************************************************************************)
(* Request ids and API key failures (SpecAuth).                            *)
(***************************************************************************)

\* C18: every response carries an X-Request-ID header whose value is the id
\* issued for that request, the responses of the authentication middleware
\* included.
C18_EveryResponseHasRequestId ==
    Answered => (resp.x_request_id # 0 /\ resp.x_request_id = issued)

\* The request went through the API key check with a key and the check
\* failed.
KeyCheckFailed ==
    /\ req # NoRequest
    /\ req.method # "OPTIONS"
    /\ req.path \notin PUBLIC_ROUTES
    /\ req.api_key \in ApiKeys
    /\ apc \notin {"idle", "auth", "api_key"}
    /\ ~rstate.api_key_data.set

C20_ProviderStatusIsResponseStatus ==
    (Answered /\ KeyCheckFailed) =>
        /\ resp.detail = "API key has insufficient permissions" => resp.status = 403
        /\ resp.detail = "Invalid API key" => resp.status = 401
        /\ \A a \in ProviderAnswers(req.api_key) :
             /\ a.status = 403 =>
                  verify_api_key(a).detail = "API key has insufficient permissions"
             /\ a.status = 401 => verify_api_key(a).detail = "Invalid API key"

\* C30: an OPTIONS request and a request to a public path pass the
\* authentication middleware unexamined: neither credential check is made,
\* nothing is attached to the request and the middleware answers nothing
\* itself, whatever the credential headers.
C30_OptionsAndPublicPass ==
    (req # NoRequest /\ (req.method = "OPTIONS" \/ req.path \in PUBLIC_ROUTES))
        => /\ apc \notin {"api_key", "jwt", "decide"}
           /\ ~rstate.api_key_data.set
           /\ ~rstate.token_data.set
           /\ rstate.user_id = Unset
           /\ resp.by # "auth"

\* A request to a public path with a refused key and a forged token was
\* handled, and an OPTIONS request to a protected path with them came through.
C30_Witness ==
    /\ Answered
    /\ req.api_key = "key_revoked"
    /\ req.authorization = [scheme |-> "Bearer", token |-> "t_forged"]
    /\ \/ req.path = "/health" /\ req.method = "GET" /\ resp.by = "handler"
       \/ req.path = "/chat" /\ req.method = "OPTIONS" /\ resp.by = "cors"

\* The details of the errors raised for a transport failure towards the
\* identity provider: the key verification call and the JWKS fetch.
TransportFailureDetails ==
    {"API key verification failed: transport error", "Failed to fetch JWKS"}

\* C21: a request refused because the identity provider could not be reached,
\* for the key verification or for the JWKS, is answered with status 503.
C21_TransportFailureIs503 ==
    (Answered /\ resp.by = "auth" /\ resp.detail \in TransportFailureDetails)
        => resp.status = 503

(***************************************************************************)
(* Job creation (SpecCreate).                                              *)
(***************************************************************************)

\* C22: a creation request for an id the store already holds, without
\* replace_existing, is answered 409 and leaves the stored job as it was.
C22_DuplicateIdIsConflict ==
    (crt.pc = "responded" /\ crt.existed /\ ~crt.replace_existing)
        => (crt.status = 409 /\ crt.store_unchanged)

\* C27: a creation request whose function cannot be resolved is refused at
\* creation with 400 "Job function not found"; it adds no job to the store
\* and writes no created row.
C27_UnknownFunctionFailsAtCreation ==
    (crt.pc = "responded" /\ crt.function \notin importable_functions)
        => /\ crt.status = 400
           /\ crt.detail = "Job function not found"
           /\ crt.store_unchanged
           /\ ~crt.created_row

C27_Witness ==
    /\ crt.pc = "responded"
    /\ crt.function = "jobs.missing:cleanup"
    /\ ~crt.existed
    /\ crt.status = 400
    /\ ~get_job(jobstore, crt.job_id)

\* A verification returns with JWKSError in this step.
FetchFailed(v) ==
    vt[v].pc # "returned" /\ vt'[v].pc = "returned" /\ vt'[v].result = "jwks_error"

\* The cached document, kid set and expiry belong together.
CacheConsistent(c) ==
    IF c.loaded THEN c.doc.shape = "jwks" /\ c.kids = c.doc.keys
    ELSE c = EmptyCache

\* C28: a fetch that fails leaves the cached document, kid set and expiry as
\* they were, and after every step the three belong together.
C28_FailedFetchLeavesCache ==
    [][/\ \A v \in Verifiers : FetchFailed(v) => jwks_cache' = jwks_cache
       /\ CacheConsistent(jwks_cache')]_vars

\* C29: a token whose header has no kid is rejected for the missing kid in
\* the step that reads the header: no GET is sent and the cache stays as it
\* was.
C29_MissingKidNoFetch ==
    [][\A v \in Verifiers :
         (vt[v].pc = "idle" /\ vt'[v].pc # "idle" /\ vt'[v].kid = None)
            => /\ vt'[v].pc = "returned"
               /\ vt'[v].result = "missing_kid"
               /\ vt'[v].refreshes = 0
               /\ jwks_cache' = jwks_cache]_vars

\* A token without kid was rejected while the cache was empty.
C29_Witness ==
    \E v \in Verifiers :
        /\ vt[v].pc = "returned"
        /\ vt[v].kid = None
        /\ vt[v].result = "missing_kid"
        /\ jwks_cache = EmptyCache

(***************************************************************************)
(* Captured logs (SpecLogs, SpecJobs).                                     *)
(***************************************************************************)

\* C14: the logs stored for an execution hold only output of that execution,
\* and the buffers of a capture hold only output of its own execution, also
\* when executions overlap.
C14_LogsScopedToExecution ==
    /\ \A j \in JobIds :
         stored_logs[j].there => stored_logs[j].sources \subseteq {stored_logs[j].by}
    /\ \A c \in CaptureIds : get_logs(cap[c]) \subseteq {c}

\* C16: once every capture that was entered has exited, in whatever order,
\* sys.stdout and sys.stderr are the original streams and the root logger has
\* no capture handler.
C16_SinksRestoredAfterAllExits ==
    (\A c \in CaptureIds : cap[c].pc # "running")
        => (sys_stdout = Original /\ sys_stderr = Original /\ root_handlers = {})


(***************************************************************************)
(* C31: shutdown order and drain                                           *)
(***************************************************************************)

\* C31: the shutdown event stops the scheduler, then closes the HTTP
\* client, then closes the database pool, and the database pool is never
\* closed while a job execution is still in flight.
C31_PoolClosedAfterDrain ==
    /\ app.http_client = "closed" => ~sched_running
    /\ app.db_pool = "closed" => app.http_client = "closed"
    /\ app.db_pool = "closed" => \A e \in 1..MaxExecs : ~ExecutionInFlight(e)


(***************************************************************************)
(* C32: title derivation                                                   *)
(***************************************************************************)

\* C32: the title derived from a message text is never empty and never
\* longer than 50 characters, and deriving the title of a derived title
\* gives the same title.
C32_TitleIdempotentAndBounded ==
    /\ ttl.pc \in {"derived", "rederived"} =>
          ttl.title # <<>> /\ Len(ttl.title) <= 50
    /\ ttl.pc = "rederived" => ttl.again = ttl.title

\* A padded text of more than 50 characters with a blank at the cut has been
\* truncated and its title derived again.
C32_Witness ==
    /\ ttl.pc = "rederived"
    /\ Len(str_strip(ttl.first_message)) > 50
    /\ ttl.first_message # str_strip(ttl.first_message)
    /\ ttl.title[47] = " "
    /\ ttl.title # ttl.first_message


(***************************************************************************)
(* C33: the listener and a job added again under the same id               *)
(***************************************************************************)

\* The store holds, under the id of execution e, a job other than the one
\* that fired: the execution is of a job that ran once, the stored job has
\* another trigger. No run of the stored job has been submitted.
NewJobUnderSameId(e) ==
    /\ execs[e].trigger = "once"
    /\ get_job(jobstore, execs[e].job_id)
    /\ jobstore[execs[e].job_id].trigger # "once"

\* C33: the removal step of the listener of a finished execution leaves in
\* the store a job that was added under the same id after the execution
\* began and has not fired.
C33_ListenerLeavesNewJob ==
    [][\A e \in 1..MaxExecs :
         (execs[e].lpc = "saved" /\ execs'[e].lpc = "done" /\ NewJobUnderSameId(e))
            => get_job(jobstore', execs[e].job_id)]_vars


(***************************************************************************)
(* C34: deletion, the history and the store                                *)
(***************************************************************************)

RemovedRowOf(j) ==
    \E i \in 1..Len(history) : history[i].status = "removed" /\ history[i].job_id = j

\* C34: when a delete request has been answered, a removed history row of
\* the job is committed if and only if the request removed the job from the
\* store.
C34_RemovedRowIffRemoved ==
    dlt.pc = "responded" => (RemovedRowOf(dlt.job_id) <=> dlt.removed)


(***************************************************************************)
(* C35: the running row is best-effort                                     *)
(***************************************************************************)

\* The mark-running task of execution e is over and wrote no running row.
MarkRunningFailed(e) ==
    /\ execs[e].mark = "done"
    /\ ~\E i \in 1..Len(history) : history[i].exec = e /\ history[i].status = "running"

\* The job function of execution e was invoked.
FunctionInvoked(e) == execs[e].pc \in {"running", "finished"}

\* C35: when the write of the running row failed, the job function is still
\* invoked, and once the listener of the execution is through, the history
\* has the completed or failed row of the execution.
C35_RunningRowIsBestEffort ==
    \A e \in 1..MaxExecs :
        MarkRunningFailed(e) =>
            /\ FunctionInvoked(e)
            /\ execs[e].lpc = "done" =>
                  \E i \in 1..Len(history) :
                      /\ history[i].exec = e
                      /\ history[i].status \in {"completed", "failed"}


(***************************************************************************)
(* C36: the saved reply and the emitted deltas                             *)
(***************************************************************************)

IsContentFrame(f) == f.kind = "content"

\* The texts of the content deltas among the frames, in order.
DeltaTexts(frames) ==
    LET deltas == SelectSeq(frames, IsContentFrame) IN
    [i \in 1..Len(deltas) |-> deltas[i].text]

\* C36: the content of the assistant message saved for the stream is the
\* in-order concatenation of the content deltas sent to the client.
C36_SavedContentIsEmittedContent ==
    sstate.assistant_message_id # 0 => sstate.tried = DeltaTexts(out)

\* A reply of two deltas has been saved by a stream of three chunks, one of
\* which added nothing to the buffer.
C36_Witness ==
    /\ spc = "closed"
    /\ sstate.assistant_message_id # 0
    /\ nchunks = MaxChunks
    /\ Len(sstate.tried) = 2
    /\ Len(DeltaTexts(out)) = 2


(***************************************************************************)
(* C37: malformed upstream chunks                                          *)
(***************************************************************************)

\* C37: the step that receives a malformed upstream chunk skips it: the
\* stream stays open for the chunks that follow, nothing is sent for it and
\* the assistant buffer is as it was.
C37_MalformedChunkSkipped ==
    [][(sstate'.malformed /\ ~sstate.malformed) =>
          /\ spc' = "streaming"
          /\ out' = out
          /\ sstate'.assistant_content = sstate.assistant_content]_vars


(***************************************************************************)
(* C38: the log-record factory after overlapping requests                  *)
(***************************************************************************)

\* C38: when no request is inside the request-id middleware, the log-record
\* factory is the one that was in place before the requests began, and no
\* log record carries the request id of a request that had completed when
\* the record was made.
C38_FactoryRestoredAfterRequests ==
    /\ (\A r \in DispatchIds : mw.rq[r].pc # "inside") => mw.factory = OriginalFactory
    /\ \A rec \in mw.records : ~rec.completed


(***************************************************************************)
(* C39: the trigger type of the history rows                               *)
(***************************************************************************)

\* C39: every history row of an execution, the running row included,
\* carries the trigger type of the trigger of the job that ran.
C39_RowsCarryActualTriggerType ==
    \A i \in 1..Len(history) :
        history[i].exec # 0 =>
            history[i].trigger_type = execs[history[i].exec].trigger

\* A running row is in the history.
C39_SomeRunningRow ==
    \E i \in 1..Len(history) : history[i].status = "running"


(***************************************************************************)
(* C40: the row lock is released and every stream finishes                 *)
(***************************************************************************)

====
